---- MODULE Spec2Model ----
(***************************************************************************)
(* A model of the electrode-cluster detection and of the cross-validation  *)
(* planner of miller_ecog_tools.                                           *)
(*                                                                         *)
(* Units.  Frequencies are integers in tenths of a Hz (20 is 2.0 Hz), and  *)
(* coordinates and distances are integers in mm.  A distance comparison    *)
(* d(i,j) < t is made on the squares, d(i,j)^2 < t^2, which agrees with    *)
(* the comparison of the square roots for t >= 0.  A mean is kept as the   *)
(* fraction [num, den] of the sum and the count, and the mean of an empty  *)
(* selection, numpy's nan, is the fraction with den = 0.                   *)
(*                                                                         *)
(* Electrodes, frequency bins and windows are numbered from 0 as in the    *)
(* source.                                                                 *)
(***************************************************************************)
EXTENDS Integers, Sequences, FiniteSets, TLC

VARIABLES
    cls,                \* the class of the analysis object
    pc,                 \* "init": object configured and data loaded; "done": analysis() has returned
    elec_info,          \* self.elec_info (self.elec_xyz_indiv): per electrode [type, x, y, z]
    peaks,              \* the frequency x channel array of peaks (rec_peaks of SubjectElecCluster)
    nrec_peaks,         \* nrec_peaks of SubjectElecCluster
    min_elec_dist,      \* self.min_elec_dist
    near_dist,          \* self.near_dist of SubjectElecCluster
    separate_hemis,     \* self.separate_hemis
    min_num_elecs,      \* self.min_num_elecs
    cluster_freq_range, \* self.cluster_freq_range
    elec_types_allowed, \* self.elec_types_allowed
    near_adj_matr,      \* the adjacency matrix analysis() built (None before)
    allowed_elecs,      \* the allow-mask analysis() built (None before)
    clusters,           \* self.res['clusters'] (None before)
    rec_clusters,       \* self.rec_clusters of SubjectElecCluster (None before)
    nrec_clusters,      \* self.nrec_clusters of SubjectElecCluster (None before)
    task,               \* self.task of a classifier
    subj_features,      \* the event table of the features load_features / the feature file holds
    subject_data,       \* self.subject_data: the event table of the loaded features (None before)
    train_phase,        \* self.train_phase
    test_phase,         \* self.test_phase
    cross_val_dict,     \* self.cross_val_dict: fold key -> fold record ({} before)
    task_phase,         \* self.task_phase (None before)
    subj_res,           \* the result of ClassifyTH.run_classify_for_single_subj (None before)
    C,                  \* self.C: the list of regularization candidates
    cv_masks,           \* mask_train and mask_test of compute_classifier's loop, by fold key
    last_call,          \* the last call on the classifier: which, how it ended, what it fitted
    fn_in,              \* the arguments of the numerical routine under study
    fn_out,             \* what the routine computed from them (None before)
    feat_type,          \* self.feat_type of a classifier
    data,               \* the feature values of subject_data / subj_features, one per event
    fold_x,             \* x_train and x_test as handed to the fold's classifier, by fold key
    fit_C,              \* the values of C the loop over Cs makes the fold classifiers with
    batch,              \* the subject loop of run_classify_for_all_subjs
    waves               \* the traveling-wave analysis of SubjectTravelingWave

inputVars == <<cls, elec_info, peaks, nrec_peaks>>

configVars == <<min_elec_dist, near_dist, separate_hemis, min_num_elecs, cluster_freq_range,
                elec_types_allowed>>

resultVars == <<near_adj_matr, allowed_elecs, clusters, rec_clusters, nrec_clusters>>

classifierVars == <<task, subj_features, subject_data, train_phase, test_phase, cross_val_dict,
                    task_phase, subj_res, C, cv_masks, last_call, fn_in, fn_out>>

moreVars == <<feat_type, data, fold_x, fit_C, batch, waves>>

vars == <<pc, inputVars, configVars, resultVars, classifierVars, moreVars>>

None == "None"

\* An attribute of a classifier that is None until it is computed is kept as a
\* set: empty while the attribute is None, and holding the value once it is set.
Unset == {}
Some(x) == {x}
IsNone(o) == o = {}
Get(o) == CHOOSE x \in o : TRUE

(***************************************************************************)
(* Bounds of the model.                                                    *)
(***************************************************************************)
\* number of frequency bins of self.freqs
NumFreqs == 4
\* largest number of true entries of a peak array drawn entry by entry, and
\* largest number of bins of an electrode in the other peak arrays
MaxPeaks == 2
\* number of electrodes of the tables drawn for the adjacency matrix
NumAdjElecs == 4
\* largest number of events of an event table
MaxEvents == 3
\* number of session ids and number of trial / list ids an event can carry
NumSessions == 2
NumLists == 3
\* largest number of regularization candidates in self.C
MaxCandidates == 2

(***************************************************************************)
(* Small helpers.                                                          *)
(***************************************************************************)
Range(s) == {s[i] : i \in DOMAIN s}

Min(S) == CHOOSE x \in S : \A y \in S : x <= y

RECURSIVE SortedSeq(_)
\* the elements of a finite set of integers as an ascending sequence
SortedSeq(S) == IF S = {} THEN <<>> ELSE <<Min(S)>> \o SortedSeq(S \ {Min(S)})

RECURSIVE SumOver(_, _)
\* the sum of f[x] over the x of S
SumOver(f, S) ==
    IF S = {} THEN 0
    ELSE LET x == CHOOSE y \in S : TRUE IN f[x] + SumOver(f, S \ {x})

RECURSIVE ProdOver(_, _)
ProdOver(f, S) ==
    IF S = {} THEN 1
    ELSE LET x == CHOOSE y \in S : TRUE IN f[x] * ProdOver(f, S \ {x})

NaN == [num |-> 0, den |-> 0]

\* np.mean of the values vals[i], i in S: the fraction sum/count, nan when S is empty
MeanOf(vals, S) == [num |-> SumOver(vals, S), den |-> Cardinality(S)]

\* np.mean of a list of fractions: nan as soon as one of them is nan
MeanOfFractions(fs) ==
    LET I == DOMAIN fs
        dens == [i \in I |-> fs[i].den]
    IN  IF I = {} \/ \E i \in I : fs[i].den = 0 THEN NaN
        ELSE [num |-> SumOver([i \in I |-> fs[i].num * ProdOver(dens, I \ {i})], I),
              den |-> Cardinality(I) * ProdOver(dens, I)]

(***************************************************************************)
(* The adjacency matrix: SubjectOscillationClusterAnalysis.analysis.       *)
(***************************************************************************)
Elecs(info) == DOMAIN info

\* self._get_elec_xyz(): the x, y, z columns of elec_info
get_elec_xyz(info) == [e \in Elecs(info) |-> <<info[e].x, info[e].y, info[e].z>>]

\* the coordinates left where they are, whatever self.separate_hemis
ShiftNoHemis(xyz, sep) == xyz

\* xyz[xyz[:, 0] < 0, 0] -= 100, done only if self.separate_hemis
ShiftHemis(xyz, sep) ==
    [e \in DOMAIN xyz |->
        IF sep /\ xyz[e][1] < 0 THEN <<xyz[e][1] - 100, xyz[e][2], xyz[e][3]>> ELSE xyz[e]]

Sq(a) == a * a

\* scipy's pdist: the (squared) distance of every pair i < j, and of no other pair
pdist(xyz) ==
    [p \in {q \in (DOMAIN xyz) \X (DOMAIN xyz) : q[1] < q[2]} |->
        Sq(xyz[p[1]][1] - xyz[p[2]][1]) + Sq(xyz[p[1]][2] - xyz[p[2]][2])
            + Sq(xyz[p[1]][3] - xyz[p[2]][3])]

\* scipy's squareform: the square matrix of a condensed one, its diagonal 0
squareform(cond, E) ==
    [i \in E |-> [j \in E |->
        IF i = j THEN 0 ELSE IF i < j THEN cond[<<i, j>>] ELSE cond[<<j, i>>]]]

\* a comparison that keeps the pairs at distance 0
NearAdjMatrNoLowerBound(dists, d) ==
    [i \in DOMAIN dists |-> [j \in DOMAIN dists |-> dists[i][j] < Sq(d)]]

\* (elec_dists < self.min_elec_dist) & (elec_dists > 0.), on squared distances
NearAdjMatr(dists, d) ==
    [i \in DOMAIN dists |-> [j \in DOMAIN dists |-> dists[i][j] < Sq(d) /\ dists[i][j] > 0]]

\* allowed_elecs: e in self.elec_types_allowed for e in self.elec_info['type']
AllowedElecs(info, types) == [e \in Elecs(info) |-> info[e].type \in types]

(***************************************************************************)
(* The frequency grid and the windows of find_clusters_from_peaks.         *)
(***************************************************************************)
\* self.freqs: NumFreqs bins from 2.0 Hz, 1.0 Hz apart
freqs == [k \in 0 .. NumFreqs - 1 |-> 20 + 10 * k]

FreqBins == DOMAIN freqs

\* np.arange(self.freqs[0], self.freqs[-1] + .001, 1): one center per Hz
window_centers ==
    [i \in 0 .. ((freqs[NumFreqs - 1] - freqs[0]) \div 10) |-> freqs[0] + 10 * i]

Windows == DOMAIN window_centers

\* (x - self.cluster_freq_range / 2., x + self.cluster_freq_range / 2.)
windows(r) ==
    [w \in Windows |-> <<window_centers[w] - (r \div 2), window_centers[w] + (r \div 2)>>]

\* (self.freqs >= x[0]) & (self.freqs <= x[1]) for every window x
window_bins(r) ==
    [w \in Windows |-> [f \in FreqBins |->
        freqs[f] >= windows(r)[w][1] /\ freqs[f] <= windows(r)[w][2]]]

(***************************************************************************)
(* find_clusters_from_peaks of SubjectOscillationClusterAnalysis.          *)
(***************************************************************************)
\* the peak array left as it is, no electrode masked out
MaskPeaksNone(pk, allowed) == pk

\* peaks[:, ~allowed_elecs] = False
MaskPeaks(pk, allowed) ==
    [f \in DOMAIN pk |-> [e \in DOMAIN pk[f] |-> pk[f][e] /\ allowed[e]]]

\* np.stack([np.any(peaks[x], axis=0) for x in window_bins], axis=0)
BinnedPeaks(pk, wb) ==
    [w \in DOMAIN wb |-> [e \in DOMAIN pk[0] |-> \E f \in DOMAIN pk : wb[w][f] /\ pk[f][e]]]

\* binned_peaks.sum(axis=1): the number of electrodes with a peak in each window
PeakCount(binned) ==
    [w \in DOMAIN binned |-> Cardinality({e \in DOMAIN binned[w] : binned[w][e]})]

\* my_local_max of par_funcs: the indices of the local maxima of a curve.  An
\* inner index is one if the curve does not fall into it and falls after it, an
\* end index if the curve is strictly higher there than beside it.
my_local_max(arr) ==
    LET last == Cardinality(DOMAIN arr) - 1
    IN  {k \in DOMAIN arr :
            \/ 0 < k /\ k < last /\ arr[k - 1] <= arr[k] /\ arr[k] > arr[k + 1]
            \/ k = 0 /\ last > 0 /\ arr[0] > arr[1]
            \/ k = last /\ last > 0 /\ arr[last] > arr[last - 1]}

\* every window taken as a candidate
PeakFreqsEveryWindow(binned) == DOMAIN binned

\* peak_freqs = my_local_max(binned_peaks.sum(axis=1)): the candidate windows
PeakFreqs(binned) == my_local_max(PeakCount(binned))

\* near_adj_matr.copy() with the rows and the columns of ~binned_peaks[w] cleared
NearThisEv(adj, bw) ==
    [i \in DOMAIN adj |-> [j \in DOMAIN adj |-> adj[i][j] /\ bw[i] /\ bw[j]]]

\* graph[elec] = np.where(row)[0], for every electrode
Graph(near) == [e \in DOMAIN near |-> {j \in DOMAIN near : near[e][j]}]

RECURSIVE ReachFrom(_, _, _)
\* the nodes reached from the set S along at most n edges of g
ReachFrom(g, S, n) ==
    IF n = 0 THEN S ELSE ReachFrom(g, S \cup UNION {g[x] : x \in S}, n - 1)

Reachable(g, i) == ReachFrom(g, {i}, Cardinality(DOMAIN g))

\* the strongly connected component of node i
SCC(g, i) == {j \in DOMAIN g : j \in Reachable(g, i) /\ i \in Reachable(g, j)}

\* tarjan(graph): the strongly connected components of the graph, every node of
\* the graph in exactly one.  The library fixes the order of the components and
\* of the members of one; the model lists both ascending.
tarjan(g) ==
    LET roots == SortedSeq({Min(SCC(g, i)) : i \in DOMAIN g})
    IN  [k \in DOMAIN roots |-> SortedSeq(SCC(g, roots[k]))]

\* a filter that keeps every component
GoodClustersAll(comps, minN) == comps

\* np.array([len(x) for x in clusters]) >= self.min_num_elecs, and the loop
\* over np.where(good_clusters)[0]
GoodClusters(comps, minN) == SelectSeq(comps, LAMBDA c : Len(c) >= minN)

\* the frequency of the lowest bin of the window with a peak, not the mean
ElecFreqLowestBin(pk, wbw, e) ==
    LET B == {f \in DOMAIN pk : wbw[f] /\ pk[f][e]}
    IN  MeanOf(freqs, {f \in B : \A g \in B : f <= g})

\* np.mean(self.freqs[window_bins[w]][elec]): the mean frequency of the bins of
\* the window at which the electrode has a peak
ElecFreq(pk, wbw, e) == MeanOf(freqs, {f \in DOMAIN pk : wbw[f] /\ pk[f][e]})

\* the entry of all_clusters filled in for one candidate window
ClustersOfWindow(pk, adj, binned, wb, w, minN) ==
    LET good == GoodClusters(tarjan(Graph(NearThisEv(adj, binned[w]))), minN)
        efs  == [k \in DOMAIN good |->
                    [m \in DOMAIN good[k] |-> ElecFreq(pk, wb[w], good[k][m])]]
    IN  [elecs |-> good,
         elec_freqs |-> efs,
         mean_freqs |-> [k \in DOMAIN good |-> MeanOfFractions(efs[k])]]

EmptyEntry == [elecs |-> <<>>, elec_freqs |-> <<>>, mean_freqs |-> <<>>]

\* the dictionary returned whole, its empty entries included
AllEntries(all) == all

\* dict((k, v) for k, v in all_clusters.items() if all_clusters[k]['elecs'])
FilledEntries(all) ==
    [c \in {k \in DOMAIN all : all[k].elecs # <<>>} |-> all[c]]

\* find_clusters_from_peaks(peaks, near_adj_matr, allowed_elecs): the mapping
\* from the center frequency of a window to its clusters
find_clusters_from_peaks(pk0, adj, allowed, r, minN) ==
    LET pk     == MaskPeaks(pk0, allowed)
        wb     == window_bins(r)
        binned == BinnedPeaks(pk, wb)
        cand   == PeakFreqs(binned)
        all    == [c \in Range(window_centers) |->
                     LET w == CHOOSE v \in Windows : window_centers[v] = c
                     IN  IF w \in cand
                         THEN ClustersOfWindow(pk, adj, binned, wb, w, minN)
                         ELSE EmptyEntry]
    IN  FilledEntries(all)

(***************************************************************************)
(* The inputs: electrode tables and peak arrays.                           *)
(***************************************************************************)
\* an electrode table from the types and the x coordinates of its electrodes
MkInfo(types, xs) ==
    [e \in 0 .. Len(types) - 1 |-> [type |-> types[e + 1], x |-> xs[e + 1], y |-> 0, z |-> 0]]

\* Electrode tables for the cluster extractor: two pairs 5 mm apart and 50 mm
\* from each other; a chain of electrodes 10 mm apart, none of type G; three
\* electrodes within 10 mm, one of them in the other hemisphere and one of a
\* type that is never allowed.
ClusterElecInfos ==
    { MkInfo(<<"D", "G", "S", "D">>, <<0, 5, 50, 55>>),
      MkInfo(<<"D", "D", "S", "D">>, <<0, 10, 20, 30>>),
      MkInfo(<<"G", "D", "X">>, <<-2, 3, 8>>) }

\* Points for the adjacency matrix: pairs at distance 0 (the same point), 1,
\* exactly 15 (9, 12, 0), just below 15 and above 15, on both sides of x = 0.
AdjPoints == { <<0, 0, 0>>, <<9, 12, 0>>, <<-1, 0, 0>>, <<8, 12, 0>>, <<0, 0, 16>> }

AdjElecInfos ==
    [0 .. NumAdjElecs - 1 -> {[type |-> "D", x |-> p[1], y |-> p[2], z |-> p[3]] : p \in AdjPoints}]

RECURSIVE SubsetsUpTo(_, _)
\* the subsets of S of at most k elements
SubsetsUpTo(S, k) ==
    IF k = 0 THEN {{}}
    ELSE LET smaller == SubsetsUpTo(S, k - 1)
         IN  smaller \cup {T \cup {c} : T \in smaller, c \in S}

\* the frequency x channel boolean arrays with at most k true entries
PeakArrays(E, k) ==
    {[f \in FreqBins |-> [e \in E |-> <<f, e>> \in T]] : T \in SubsetsUpTo(FreqBins \X E, k)}

\* the arrays in which the electrodes of a set G all have their peaks at the
\* same bins F, at most k of them, and no other electrode has a peak
SharedPeakArrays(E, k) ==
    {[f \in FreqBins |-> [e \in E |-> f \in F /\ e \in G]] :
        F \in SubsetsUpTo(FreqBins, k), G \in SUBSET E}

\* the arrays in which electrode 0 has its peaks at the bins F, at most k of
\* them, electrode 1 has one peak and no other electrode has any
StaggeredPeakArrays(E, k) ==
    {[f \in FreqBins |-> [e \in E |-> (e = 0 /\ f \in F) \/ (e = 1 /\ f = g)]] :
        F \in SubsetsUpTo(FreqBins, k), g \in FreqBins}

\* the peak arrays drawn as the input of the cluster extractor
ClusterPeakArrays(E) ==
    PeakArrays(E, MaxPeaks) \cup SharedPeakArrays(E, MaxPeaks)
        \cup StaggeredPeakArrays(E, MaxPeaks)

\* every electrode with one peak, at 4.0 Hz
PeaksAt40(E) == [f \in FreqBins |-> [e \in E |-> freqs[f] = 40]]

\* every electrode with one peak, at 2.0 Hz
PeaksAt20(E) == [f \in FreqBins |-> [e \in E |-> freqs[f] = 20]]

\* electrode 0 with a peak at 3.0 Hz and electrode 1 with one at 5.0 Hz
PeaksAt30And50(E) ==
    [f \in FreqBins |-> [e \in E |-> (e = 0 /\ freqs[f] = 30) \/ (e = 1 /\ freqs[f] = 50)]]

ElecDistChoices == {10, 15, 110}
FreqRangeChoices == {10, 20}
ElecTypeChoices == {{"D", "G", "S"}, {"G"}}
MinNumElecsChoices == 0 .. 4

(***************************************************************************)
(* SubjectElecCluster: its windows, its adjacency matrix and its           *)
(* find_clusters_from_peaks.                                               *)
(***************************************************************************)
\* np.arange(self.freqs[0], self.freqs[-1] + .001, .1): one center per 0.1 Hz
ElecClusterWindowCenters ==
    [i \in 0 .. (freqs[NumFreqs - 1] - freqs[0]) |-> freqs[0] + i]

\* the windows of every center and the bins of self.freqs inside each
ElecClusterWindowBins(r) ==
    [w \in DOMAIN ElecClusterWindowCenters |-> [f \in FreqBins |->
        /\ freqs[f] >= ElecClusterWindowCenters[w] - (r \div 2)
        /\ freqs[f] <= ElecClusterWindowCenters[w] + (r \div 2)]]

\* (elec_dists < 15.) & (elec_dists > 0.), on squared distances
ElecClusterNearAdjMatr(dists) ==
    [i \in DOMAIN dists |-> [j \in DOMAIN dists |-> dists[i][j] < Sq(15) /\ dists[i][j] > 0]]

\* scipy's argrelmax: the inner indices strictly above both neighbours
argrelmax(arr) ==
    LET last == Cardinality(DOMAIN arr) - 1
    IN  {k \in DOMAIN arr : 0 < k /\ k < last /\ arr[k] > arr[k - 1] /\ arr[k] > arr[k + 1]}

\* the clusters one event of the list adds to all_clusters, by window
ElecClusterOfEvent(ev, adj, wb, minN) ==
    LET binned == BinnedPeaks(ev, wb)
        cand   == argrelmax(PeakCount(binned))
    IN  [w \in DOMAIN wb |->
            IF w \in cand
            THEN GoodClusters(tarjan(Graph(NearThisEv(adj, binned[w]))), minN)
            ELSE <<>>]

RECURSIVE ElecClusterOfEvents(_, _, _, _)
\* all_clusters by window after the loop over the events of the list
ElecClusterOfEvents(evs, adj, wb, minN) ==
    IF evs = <<>> THEN [w \in DOMAIN wb |-> <<>>]
    ELSE LET first == ElecClusterOfEvent(Head(evs), adj, wb, minN)
             rest  == ElecClusterOfEvents(Tail(evs), adj, wb, minN)
         IN  [w \in DOMAIN wb |-> first[w] \o rest[w]]

\* dict((k, v) for k, v in all_clusters.items() if v)
ElecClusterFilled(all) == [c \in {k \in DOMAIN all : all[k] # <<>>} |-> all[c]]

\* SubjectElecCluster.find_clusters_from_peaks(peaks, near_adj_matr, window_bins,
\* window_centers), peaks a list of frequency x channel arrays
ElecClusterFind(evs, adj, wb, wc, minN) ==
    LET byWindow == ElecClusterOfEvents(evs, adj, wb, minN)
    IN  ElecClusterFilled(
            [c \in Range(wc) |-> byWindow[CHOOSE v \in DOMAIN wc : wc[v] = c]])

(***************************************************************************)
(* The analysis object.  Init is the object after __init__ with its data   *)
(* loaded; the attributes are set before analysis() runs.                  *)
(***************************************************************************)
OscCluster == "SubjectOscillationClusterAnalysis"
ElecCluster == "SubjectElecCluster"

\* nothing but the analysis under study: no features, no batch, no waves
Idle ==
    /\ feat_type = None
    /\ data = None
    /\ fold_x = None
    /\ fit_C = None
    /\ batch = None
    /\ waves = None

\* no cluster analysis beside the classifier
NoCluster ==
    /\ elec_info = None /\ peaks = None /\ nrec_peaks = None
    /\ min_elec_dist = None /\ near_dist = None /\ separate_hemis = None
    /\ min_num_elecs = None /\ cluster_freq_range = None /\ elec_types_allowed = None
    /\ near_adj_matr = None /\ allowed_elecs = None /\ clusters = None
    /\ rec_clusters = None /\ nrec_clusters = None

\* no classifier beside the cluster analysis
NoClassifier ==
    /\ task = None
    /\ subj_features = None
    /\ subject_data = None
    /\ train_phase = None
    /\ test_phase = None
    /\ cross_val_dict = None
    /\ task_phase = None
    /\ subj_res = None
    /\ C = None
    /\ cv_masks = None
    /\ last_call = None
    /\ fn_in = None
    /\ fn_out = None

InitResults ==
    /\ pc = "init"
    /\ NoClassifier
    /\ Idle
    /\ near_adj_matr = None
    /\ allowed_elecs = None
    /\ clusters = None
    /\ rec_clusters = None
    /\ nrec_clusters = None

\* SubjectOscillationClusterAnalysis.__init__
InitOscCluster ==
    /\ cls = OscCluster
    /\ min_elec_dist = 15
    /\ near_dist = None
    /\ separate_hemis = TRUE
    /\ min_num_elecs = 4
    /\ cluster_freq_range = 20
    /\ elec_types_allowed = {"D", "G", "S"}
    /\ nrec_peaks = None
    /\ InitResults

\* SubjectElecCluster.__init__
InitElecCluster ==
    /\ cls = ElecCluster
    /\ min_elec_dist = None
    /\ near_dist = 15
    /\ separate_hemis = None
    /\ min_num_elecs = 4
    /\ cluster_freq_range = 20
    /\ elec_types_allowed = None
    /\ InitResults

InitCluster ==
    /\ elec_info \in ClusterElecInfos
    /\ peaks \in ClusterPeakArrays(Elecs(elec_info))
    /\ \/ InitOscCluster
       \/ InitElecCluster /\ nrec_peaks = PeaksAt30And50(Elecs(elec_info))

InitAdjacency ==
    /\ elec_info \in AdjElecInfos
    /\ peaks = PeaksAt40(Elecs(elec_info))
    /\ \/ InitOscCluster
       \/ InitElecCluster /\ nrec_peaks = peaks

\* the min_elec_dist setter
SetMinElecDist ==
    /\ pc = "init" /\ cls = OscCluster
    /\ \E t \in ElecDistChoices : min_elec_dist' = t
    /\ UNCHANGED <<classifierVars, moreVars, pc, inputVars, near_dist, separate_hemis, min_num_elecs, cluster_freq_range,
                   elec_types_allowed, resultVars>>

\* self.near_dist = t on a SubjectElecCluster
SetNearDist ==
    /\ pc = "init" /\ cls = ElecCluster
    /\ \E t \in ElecDistChoices : near_dist' = t
    /\ UNCHANGED <<classifierVars, moreVars, pc, inputVars, min_elec_dist, separate_hemis, min_num_elecs,
                   cluster_freq_range, elec_types_allowed, resultVars>>

\* the separate_hemis setter
SetSeparateHemis ==
    /\ pc = "init" /\ cls = OscCluster
    /\ \E t \in BOOLEAN : separate_hemis' = t
    /\ UNCHANGED <<classifierVars, moreVars, pc, inputVars, min_elec_dist, near_dist, min_num_elecs, cluster_freq_range,
                   elec_types_allowed, resultVars>>

\* the min_num_elecs setter (a plain attribute of SubjectElecCluster)
SetMinNumElecs ==
    /\ pc = "init"
    /\ \E t \in MinNumElecsChoices : min_num_elecs' = t
    /\ UNCHANGED <<classifierVars, moreVars, pc, inputVars, min_elec_dist, near_dist, separate_hemis, cluster_freq_range,
                   elec_types_allowed, resultVars>>

\* the cluster_freq_range setter (a plain attribute of SubjectElecCluster)
SetClusterFreqRange ==
    /\ pc = "init"
    /\ \E t \in FreqRangeChoices : cluster_freq_range' = t
    /\ UNCHANGED <<classifierVars, moreVars, pc, inputVars, min_elec_dist, near_dist, separate_hemis, min_num_elecs,
                   elec_types_allowed, resultVars>>

\* the elec_types_allowed setter
SetElecTypesAllowed ==
    /\ pc = "init" /\ cls = OscCluster
    /\ \E t \in ElecTypeChoices : elec_types_allowed' = t
    /\ UNCHANGED <<classifierVars, moreVars, pc, inputVars, min_elec_dist, near_dist, separate_hemis, min_num_elecs,
                   cluster_freq_range, resultVars>>

\* SubjectOscillationClusterAnalysis.analysis(): the adjacency matrix, the
\* allow-mask and the clusters.  The variable peaks keeps the array as
\* par_find_peaks_by_chan returned it; the masking of find_clusters_from_peaks
\* is done on analysis()'s own array.
Analysis ==
    /\ pc = "init" /\ cls = OscCluster
    /\ LET xyz == ShiftHemis(get_elec_xyz(elec_info), separate_hemis)
           adj == NearAdjMatr(squareform(pdist(xyz), DOMAIN xyz), min_elec_dist)
           allowed == AllowedElecs(elec_info, elec_types_allowed)
       IN  /\ near_adj_matr' = adj
           /\ allowed_elecs' = allowed
           /\ clusters' = find_clusters_from_peaks(peaks, adj, allowed,
                                                   cluster_freq_range, min_num_elecs)
    /\ pc' = "done"
    /\ UNCHANGED <<classifierVars, moreVars, inputVars, configVars, rec_clusters, nrec_clusters>>

\* SubjectElecCluster.analysis(): the adjacency matrix and the clusters of the
\* recalled and of the not recalled spectra
ElecClusterAnalysis ==
    /\ pc = "init" /\ cls = ElecCluster
    /\ LET xyz == get_elec_xyz(elec_info)
           adj == ElecClusterNearAdjMatr(squareform(pdist(xyz), DOMAIN xyz))
           wb  == ElecClusterWindowBins(cluster_freq_range)
       IN  /\ near_adj_matr' = adj
           /\ rec_clusters' =
                ElecClusterFind(<<peaks>>, adj, wb, ElecClusterWindowCenters, min_num_elecs)
           /\ nrec_clusters' =
                ElecClusterFind(<<nrec_peaks>>, adj, wb, ElecClusterWindowCenters, min_num_elecs)
    /\ pc' = "done"
    /\ UNCHANGED <<classifierVars, moreVars, inputVars, configVars, allowed_elecs, clusters>>

NextCluster ==
    \/ SetMinNumElecs
    \/ SetClusterFreqRange
    \/ SetElecTypesAllowed
    \/ Analysis
    \/ ElecClusterAnalysis

NextAdjacency ==
    \/ SetMinElecDist
    \/ SetNearDist
    \/ SetSeparateHemis
    \/ Analysis
    \/ ElecClusterAnalysis

SpecCluster == InitCluster /\ [][NextCluster]_vars

\* SubjectOscillationClusterAnalysis with the hemispheres kept apart, for
\* every threshold and every minimum size
InitHemispheres ==
    /\ elec_info \in AdjElecInfos
    /\ peaks = PeaksAt20(Elecs(elec_info))
    /\ InitOscCluster

NextHemispheres ==
    \/ SetMinElecDist
    \/ SetMinNumElecs
    \/ Analysis

SpecHemispheres == InitHemispheres /\ [][NextHemispheres]_vars

SpecAdjacency == InitAdjacency /\ [][NextAdjacency]_vars

(***************************************************************************)
(* classify.py: the cross-validation planner of SubjectClassifier and of   *)
(* ClassifyTH.  An event table is a sequence of events, each a record of   *)
(* its session id, its trial id (RAM_TH1) or list id (RAM_FR1) and its     *)
(* type; the events are in the order they were recorded, session by        *)
(* session and list by list.                                               *)
(***************************************************************************)
SubjectClassifier == "SubjectClassifier"
ClassifyTH == "ClassifyTH"

Tasks == {"RAM_TH1", "RAM_FR1"}

\* 'CHEST' if 'RAM_TH' in self.task else 'WORD'
enc_str(tk) == IF tk = "RAM_TH1" THEN "CHEST" ELSE "WORD"

\* 'REC' if 'RAM_TH' in self.task else 'REC_WORD'
rec_str(tk) == IF tk = "RAM_TH1" THEN "REC" ELSE "REC_WORD"

\* 'trial' if self.task == 'RAM_TH1' else 'list'
trial_str(tk) == IF tk = "RAM_TH1" THEN "trial" ELSE "list"

\* the events a task can record
EventsOf(tk) ==
    IF tk = "RAM_TH1"
    THEN {[session |-> s, trial |-> l, type |-> t] :
             s \in 0 .. NumSessions - 1, l \in 0 .. NumLists - 1, t \in {"CHEST", "REC"}}
    ELSE {[session |-> s, list |-> l, type |-> t] :
             s \in 0 .. NumSessions - 1, l \in 0 .. NumLists - 1, t \in {"WORD", "REC_WORD"}}

\* the events are in recording order, the sessions numbered from 0 and the
\* lists of every session numbered from 0, both without a gap
InOrder(evs, tk) ==
    /\ evs[1].session = 0 /\ evs[1][trial_str(tk)] = 0
    /\ \A i \in 1 .. Len(evs) - 1 :
          \/ /\ evs[i + 1].session = evs[i].session + 1
             /\ evs[i + 1][trial_str(tk)] = 0
          \/ /\ evs[i + 1].session = evs[i].session
             /\ evs[i + 1][trial_str(tk)] \in {evs[i][trial_str(tk)], evs[i][trial_str(tk)] + 1}

\* the event tables of the features of a subject: one event or more
EventTables(tk) ==
    {evs \in UNION {[1 .. n -> EventsOf(tk)] : n \in 1 .. MaxEvents} : InOrder(evs, tk)}

\* events.data[name]: one column of the event table
Column(evs, name) == [i \in DOMAIN evs |-> evs[i][name]]

\* np.unique(a), as a set
unique(a) == Range(a)

RECURSIVE BoolIndex(_, _, _)
\* a[mask] for a boolean mask: the entries of a the mask selects, the first n
BoolIndex(a, mask, n) ==
    IF n = 0 THEN <<>>
    ELSE IF mask[n] THEN Append(BoolIndex(a, mask, n - 1), a[n])
         ELSE BoolIndex(a, mask, n - 1)

\* the fold keys taken from the session ids, whatever the number of sessions
FoldsAlwaysSessions(evs, tk) == Column(evs, "session")

\* make_cross_val_labels: folds = sessions if there is more than one unique
\* session, else the trial / list column
Folds(evs, tk) ==
    IF Cardinality(unique(Column(evs, "session"))) > 1
    THEN Column(evs, "session")
    ELSE Column(evs, trial_str(tk))

\* every event named an encoding event, whatever its type
TaskPhaseAllEnc(evs, tk) == [i \in DOMAIN evs |-> "enc"]

\* task_phase[task_phase == enc_str] = 'enc'; task_phase[task_phase == rec_str] = 'rec'
TaskPhase(evs, tk) ==
    [i \in DOMAIN evs |->
        IF evs[i].type = enc_str(tk) THEN "enc"
        ELSE IF evs[i].type = rec_str(tk) THEN "rec" ELSE evs[i].type]

\* the event table with the column 'type' overwritten by tp
WithTypes(evs, tp) == [i \in DOMAIN evs |-> [evs[i] EXCEPT !.type = tp[i]]]

\* a cv_dict whose folds train on the events of every fold, their own too
CvDictTrainOnEveryFold(folds, tp, valid_train_inds, valid_test_inds) ==
    [fold \in unique(folds) |->
        LET test == [i \in DOMAIN folds |-> folds[i] = fold /\ valid_test_inds[i]]
        IN  [train_bool  |-> valid_train_inds,
             test_bool   |-> test,
             train_phase |-> BoolIndex(tp, valid_train_inds, Len(tp)),
             test_phase  |-> BoolIndex(tp, test, Len(tp))]]

\* cv_dict of make_cross_val_labels: one record per unique fold key
CvDict(folds, tp, valid_train_inds, valid_test_inds) ==
    [fold \in unique(folds) |->
        LET train == [i \in DOMAIN folds |-> folds[i] # fold /\ valid_train_inds[i]]
            test  == [i \in DOMAIN folds |-> folds[i] = fold /\ valid_test_inds[i]]
        IN  [train_bool  |-> train,
             test_bool   |-> test,
             train_phase |-> BoolIndex(tp, train, Len(tp)),
             test_phase  |-> BoolIndex(tp, test, Len(tp))]]

\* ClassifyTH.run_classify_for_single_subj: cv_sel = sessions if there is more
\* than one unique session, else the trial / list column
cv_sel(evs, tk) ==
    IF Cardinality(unique(Column(evs, "session"))) > 1
    THEN Column(evs, "session")
    ELSE Column(evs, trial_str(tk))

\* ClassifyTH.run_classify_for_single_subj: the common names of the phases
ClassifyTHTaskPhase(evs, tk) ==
    [i \in DOMAIN evs |->
        IF tk = "RAM_TH1"
        THEN (IF evs[i].type = "CHEST" THEN "enc"
              ELSE IF evs[i].type = "REC" THEN "rec" ELSE evs[i].type)
        ELSE IF tk = "RAM_FR1"
        THEN (IF evs[i].type = "WORD" THEN "enc"
              ELSE IF evs[i].type = "REC_WORD" THEN "rec" ELSE evs[i].type)
        ELSE evs[i].type]

\* compute_classifier: 'rec' if 'rec' in x else 'enc', for each configured phase
CommonPhases(phases) == {IF x = "rec" THEN "rec" ELSE "enc" : x \in phases}

\* masks whose test side is taken from the train phases
CvMasksTestOnTrainPhases(sel, tp, train_ph, test_ph) ==
    LET train_bool == [i \in DOMAIN tp |-> tp[i] \in CommonPhases(train_ph)]
    IN  [cv \in unique(sel) |->
            LET mask_cv == [i \in DOMAIN sel |-> sel[i] # cv]
            IN  [mask_train |-> [i \in DOMAIN sel |-> mask_cv[i] /\ train_bool[i]],
                 mask_test  |-> [i \in DOMAIN sel |-> ~mask_cv[i] /\ train_bool[i]]]]

\* compute_classifier, in the loop over uniq_cv: mask_cv = (cv_sel != cv),
\* mask_train = mask_cv & train_bool, mask_test = ~mask_cv & test_bool
CvMasks(sel, tp, train_ph, test_ph) ==
    LET train_bool == [i \in DOMAIN tp |-> tp[i] \in CommonPhases(train_ph)]
        test_bool  == [i \in DOMAIN tp |-> tp[i] \in CommonPhases(test_ph)]
    IN  [cv \in unique(sel) |->
            LET mask_cv == [i \in DOMAIN sel |-> sel[i] # cv]
            IN  [mask_train |-> [i \in DOMAIN sel |-> mask_cv[i] /\ train_bool[i]],
                 mask_test  |-> [i \in DOMAIN sel |-> ~mask_cv[i] /\ test_bool[i]]]]

\* default_C = [7.2e-4] of both classes, in units of 1e-5
default_C == <<72>>

\* criteria['RAM_TH1']['n_lists']
n_lists_RAM_TH1 == 30

\* criteria['RAM_FR1']['n_lists']
n_lists_RAM_FR1 == 15

PhaseChoices == {{"enc"}, {"rec"}, {"enc", "rec"}}

\* the candidate lists self.C is set to: default_C, longer ones, and a list
\* that does not start with the value of default_C
CChoices == {[i \in 1 .. n |-> 72 * i] : n \in 1 .. MaxCandidates} \cup {<<72 * 2>>}

\* np.argmax(aucs) of compute_classifier: aucs stays all zeros without
\* leave-one-session-out, and holds the mean AUC of each candidate with it
BestCandidates(Cs, loso) == IF loso THEN DOMAIN Cs ELSE {1}

(***************************************************************************)
(* The feature values and their normalization.  A feature value is kept as *)
(* the expression that computed it: the raw value of an event, or a value  *)
(* z-scored against the mean and the deviation of a set of values.  Two    *)
(* events are taken to have different raw values.                          *)
(***************************************************************************)
\* the raw feature value of event i
Raw(i) == [kind |-> "raw", ev |-> i, of |-> <<>>, ref |-> {}]

\* a value that is not finite: a division by a zero deviation, or a mean of
\* nothing
NonFinite == [kind |-> "nan", ev |-> 0, of |-> <<>>, ref |-> {}]

\* a row of np.empty that nothing was written to
Uninit == [kind |-> "empty", ev |-> 0, of |-> <<>>, ref |-> {}]

\* (v - mean(ref)) / std(ref)
Z(v, ref) == [kind |-> "z", ev |-> v.ev, of |-> <<v>>, ref |-> ref]

\* the feature matrix as load_features gives it: one raw row per event
RawData(evs) == [i \in DOMAIN evs |-> Raw(i)]

\* the feature values are followed: data holds a row per event.  Where data
\* is empty the classifier's calls are followed without the values they
\* compute from the features.
Followed == data # <<>>

NotFinite(a) == \E i \in DOMAIN a : a[i].kind \in {"nan", "empty"}

\* the rows of a are the z-scores of one group against itself: their mean is
\* 0 and their deviation 1
SelfNormalised(a) ==
    \A i \in DOMAIN a :
        /\ a[i].kind = "z"
        /\ a[i].ref = {a[j].of[1] : j \in DOMAIN a}

\* scipy.stats.zmap(scores, compare, axis=0)
zmap(scores, compare) ==
    IF Len(compare) < 2 \/ NotFinite(compare) THEN [i \in DOMAIN scores |-> NonFinite]
    ELSE IF SelfNormalised(compare) THEN scores
    ELSE [i \in DOMAIN scores |-> IF scores[i].kind \in {"nan", "empty"} THEN NonFinite
                                   ELSE Z(scores[i], Range(compare))]

\* scipy.stats.zscore(a, axis=0)
zscore(a) == zmap(a, a)

\* np.where(mask): the positions a boolean mask selects, in order
Where(mask) == BoolIndex([i \in DOMAIN mask |-> i], mask, Len(mask))

\* a[idx]
Take(a, idx) == [k \in DOMAIN idx |-> a[idx[k]]]

\* the place of row i among the rows idx
Rank(idx, i) == CHOOSE k \in DOMAIN idx : idx[k] = i

\* the rows of a whose key is that of row i, among the rows that are active
GroupOf(key, active, i) == Where([j \in DOMAIN key |-> active[j] /\ key[j] = key[i]])

\* for every key: a[rows of the key] = zscore(a[rows of the key]), over the
\* active rows
ZscoreByKey(a, key, active) ==
    [i \in DOMAIN a |->
        IF active[i]
        THEN LET idx == GroupOf(key, active, i)
             IN  zscore(Take(a, idx))[Rank(idx, i)]
        ELSE a[i]]

\* _normalize_power and lines 761-767 of compute_classifier: the rows of each
\* session and phase are z-scored among themselves, for the phases given
normalize_power(X, sessions, tp, phases) ==
    ZscoreByKey(X, [i \in DOMAIN X |-> <<sessions[i], tp[i]>>],
                [i \in DOMAIN X |-> tp[i] \in phases])

\* the feature matrix the folds of classify and compute_classifier index
FoldInput(ft, X, sessions, tp, phases) ==
    IF ft = "power" THEN normalize_power(X, sessions, tp, phases) ELSE X

\* the rows of each phase of the training array z-scored among themselves, as
\* lines 343-344 and 801-803 do for the train phases
TrainRows(feats_train, task_train, train_ph) ==
    ZscoreByKey(feats_train, task_train, [i \in DOMAIN task_train |-> task_train[i] \in train_ph])

\* lines 340-351 of classify: x_train is z-scored in place, and x_test is
\* then scaled against x_train as it is by then
ClassifyFoldX(X, fold, train_ph, test_ph) ==
    LET x_train == TrainRows(BoolIndex(X, fold.train_bool, Len(X)), fold.train_phase, train_ph)
        x_test  == BoolIndex(X, fold.test_bool, Len(X))
        task_test == fold.test_phase
        of_phase(a, ta, ph) == Take(a, Where([j \in DOMAIN ta |-> ta[j] = ph]))
    IN  [x_train |-> x_train,
         x_test  |-> [i \in DOMAIN x_test |->
                        IF task_test[i] \notin test_ph THEN x_test[i]
                        ELSE LET idx == Where([j \in DOMAIN task_test |->
                                                  task_test[j] = task_test[i]])
                                 own == Take(x_test, idx)
                             IN  IF task_test[i] \in train_ph
                                 THEN zmap(own, of_phase(x_train, fold.train_phase,
                                                         task_test[i]))[Rank(idx, i)]
                                 ELSE zscore(own)[Rank(idx, i)]],
         raised  |-> FALSE]

\* x_test[task_phase_train == phase] = vals: whether the assignment goes
\* through.  A numpy that checks the length of a boolean index raises unless
\* the mask is as long as x_test; an older one raises when the mask selects a
\* row x_test does not have.  Both raise when vals has neither as many rows
\* as the mask selects nor a single one.
AssignOk(strict, n_test, mask, vals) ==
    /\ IF strict THEN Len(mask) = n_test
       ELSE \A k \in DOMAIN mask : mask[k] => k <= n_test
    /\ Len(vals) = Len(Where(mask)) \/ Len(vals) = 1

\* lines 786-810 of compute_classifier: x_train and x_test start as np.empty;
\* x_train is filled phase by phase, and x_test is filled at the rows that the
\* phase mask of the training events selects
ComputeFoldX(strict, X, masks, tp, train_ph, test_ph) ==
    LET feats_train == BoolIndex(X, masks.mask_train, Len(X))
        task_phase_train == BoolIndex(tp, masks.mask_train, Len(tp))
        feats_test == BoolIndex(X, masks.mask_test, Len(X))
        task_phase_test == BoolIndex(tp, masks.mask_test, Len(tp))
        of_phase(a, ta, ph) == Take(a, Where([j \in DOMAIN ta |-> ta[j] = ph]))
        vals(ph) == IF ph \in train_ph
                    THEN zmap(of_phase(feats_test, task_phase_test, ph),
                              of_phase(feats_train, task_phase_train, ph))
                    ELSE zscore(of_phase(feats_test, task_phase_test, ph))
        mask(ph) == [j \in DOMAIN task_phase_train |-> task_phase_train[j] = ph]
        ok == \A ph \in test_ph : AssignOk(strict, Len(feats_test), mask(ph), vals(ph))
    IN  [x_train |-> [i \in DOMAIN feats_train |->
                        IF task_phase_train[i] \in train_ph
                        THEN TrainRows(feats_train, task_phase_train, train_ph)[i]
                        ELSE Uninit],
         x_test  |-> IF ~ok THEN <<>>
                     ELSE [i \in DOMAIN feats_test |->
                             IF i \in DOMAIN task_phase_train /\ task_phase_train[i] \in test_ph
                             THEN LET v == vals(task_phase_train[i])
                                  IN  IF Len(v) = 1 THEN v[1]
                                      ELSE v[Rank(Where(mask(task_phase_train[i])), i)]
                             ELSE Uninit],
         raised  |-> ~ok]

\* what a call leaves behind: how it ended ("returned", "reported" when it
\* printed a message and returned, "raised" when an exception left it), the
\* number of classifier fits it made and whether it computed an AUC
Call(op, outcome, fits, auc) == [op |-> op, outcome |-> outcome, fits |-> fits, auc |-> auc]

\* a classifier after __init__, the task chosen; no cluster analysis beside it
InitClassifier ==
    /\ cls \in {SubjectClassifier, ClassifyTH}
    /\ task \in Tasks
    /\ subj_features \in EventTables(task)
    /\ subject_data = Unset
    /\ train_phase = {"enc"}
    /\ test_phase = {"enc"}
    /\ cross_val_dict = <<>>
    /\ task_phase = Unset
    /\ subj_res = Unset
    /\ C = default_C
    /\ cv_masks = <<>>
    /\ last_call = Call("__init__", "returned", 0, FALSE)
    /\ fn_in = <<>>
    /\ fn_out = Unset
    /\ feat_type = "power"
    /\ data = <<>>
    /\ fold_x = <<>>
    /\ fit_C = {}
    /\ batch = None
    /\ waves = None
    /\ pc = "init"
    /\ NoCluster

clusterVars == <<pc, inputVars, configVars, resultVars>>

\* self.train_phase = t
SetTrainPhase ==
    /\ cls \in {SubjectClassifier, ClassifyTH}
    /\ \E t \in PhaseChoices : train_phase' = t
    /\ last_call' = Call("train_phase", "returned", 0, FALSE)
    /\ UNCHANGED <<clusterVars, moreVars, task, subj_features, subject_data, test_phase, cross_val_dict,
                   task_phase, subj_res, C, cv_masks, fn_in, fn_out>>

\* self.test_phase = t
SetTestPhase ==
    /\ cls \in {SubjectClassifier, ClassifyTH}
    /\ \E t \in PhaseChoices : test_phase' = t
    /\ last_call' = Call("test_phase", "returned", 0, FALSE)
    /\ UNCHANGED <<clusterVars, moreVars, task, subj_features, subject_data, train_phase, cross_val_dict,
                   task_phase, subj_res, C, cv_masks, fn_in, fn_out>>

\* self.C = c
SetC ==
    /\ cls \in {SubjectClassifier, ClassifyTH}
    /\ \E c \in CChoices : C' = c
    /\ last_call' = Call("C", "returned", 0, FALSE)
    /\ UNCHANGED <<clusterVars, moreVars, task, subj_features, subject_data, train_phase, test_phase,
                   cross_val_dict, task_phase, subj_res, cv_masks, fn_in, fn_out>>

\* SubjectData.load_data(), self.subj set: the features are loaded or computed
\* and stored as self.subject_data
load_data ==
    /\ cls = SubjectClassifier
    /\ subject_data' = Some(subj_features)
    /\ data' = IF Followed THEN RawData(subj_features) ELSE data
    /\ last_call' = Call("load_data", "returned", 0, FALSE)
    /\ UNCHANGED <<clusterVars, feat_type, fold_x, fit_C, batch, waves, task, subj_features, train_phase, test_phase, cross_val_dict,
                   task_phase, subj_res, C, cv_masks, fn_in, fn_out>>

\* a planner that without data clears the plan it made before
make_cross_val_labels_clearing ==
    /\ cls = SubjectClassifier
    /\ IF IsNone(subject_data)
       THEN /\ last_call' = Call("make_cross_val_labels", "reported", 0, FALSE)
            /\ cross_val_dict' = <<>>
            /\ task_phase' = Unset
            /\ UNCHANGED subject_data
       ELSE LET events == Get(subject_data)
                folds  == Folds(events, task)
                tp     == TaskPhase(events, task)
                valid_train_inds == [i \in DOMAIN tp |-> tp[i] \in test_phase]
                valid_test_inds  == [i \in DOMAIN tp |-> tp[i] \in test_phase]
            IN  /\ cross_val_dict' = CvDict(folds, tp, valid_train_inds, valid_test_inds)
                /\ task_phase' = Some(tp)
                /\ last_call' = Call("make_cross_val_labels", "returned", 0, FALSE)
                /\ \E aliased \in BOOLEAN :
                      subject_data' = IF aliased THEN Some(WithTypes(events, tp))
                                      ELSE subject_data
    /\ UNCHANGED <<clusterVars, moreVars, task, subj_features, train_phase, test_phase, subj_res, C,
                   cv_masks, fn_in, fn_out>>

\* SubjectClassifier.make_cross_val_labels().  Without data it prints a message
\* and returns at once.  task_phase is events.data['type'] and is renamed in
\* place: the event table of subject_data is renamed with it if the array
\* library hands out the column itself (aliased), and is left as it was if it
\* hands out a copy.
make_cross_val_labels ==
    /\ cls = SubjectClassifier
    /\ IF IsNone(subject_data)
       THEN /\ last_call' = Call("make_cross_val_labels", "reported", 0, FALSE)
            /\ UNCHANGED <<subject_data, cross_val_dict, task_phase>>
       ELSE LET events == Get(subject_data)
                folds  == Folds(events, task)
                tp     == TaskPhase(events, task)
                valid_train_inds == [i \in DOMAIN tp |-> tp[i] \in test_phase]
                valid_test_inds  == [i \in DOMAIN tp |-> tp[i] \in test_phase]
            IN  /\ cross_val_dict' = CvDict(folds, tp, valid_train_inds, valid_test_inds)
                /\ task_phase' = Some(tp)
                /\ last_call' = Call("make_cross_val_labels", "returned", 0, FALSE)
                /\ \E aliased \in BOOLEAN :
                      subject_data' = IF aliased THEN Some(WithTypes(events, tp))
                                      ELSE subject_data
    /\ UNCHANGED <<clusterVars, moreVars, task, subj_features, train_phase, test_phase, subj_res, C,
                   cv_masks, fn_in, fn_out>>

\* the sessions remove_abridged_sessions marks as bad: those whose number of
\* unique lists is at most criteria['RAM_TH1']['n_lists'], whatever the task
BadSessions(evs, tk) ==
    {s \in unique(Column(evs, "session")) :
        Cardinality({evs[i][trial_str(tk)] : i \in {j \in DOMAIN evs : evs[j].session = s}})
            <= n_lists_RAM_TH1}

\* exclusions.remove_abridged_sessions(subj_obj): the events of the bad sessions
\* are dropped, and the data is set to None when every session is bad.  It
\* reads subj_obj.subject_data.events first, which raises without data.
remove_abridged_sessions ==
    /\ cls = SubjectClassifier
    /\ IF IsNone(subject_data)
       THEN /\ last_call' = Call("remove_abridged_sessions", "raised", 0, FALSE)
            /\ UNCHANGED subject_data
       ELSE LET evs == Get(subject_data)
                bad == BadSessions(evs, task)
                bad_evs == [i \in DOMAIN evs |-> evs[i].session \in bad]
                keep == [i \in DOMAIN evs |-> ~bad_evs[i]]
            IN  /\ subject_data' = IF bad = unique(Column(evs, "session"))
                                   THEN Unset
                                   ELSE Some(BoolIndex(evs, keep, Len(evs)))
                /\ last_call' = Call("remove_abridged_sessions", "returned", 0, FALSE)
    /\ UNCHANGED <<clusterVars, moreVars, task, subj_features, train_phase, test_phase, cross_val_dict,
                   task_phase, subj_res, C, cv_masks, fn_in, fn_out>>

\* SubjectClassifier.classify().  It returns with a message when
\* cross_val_dict is empty; it then reads self.subject_data.events, which
\* raises without data, and returns with a message for one session and more
\* than one candidate.  Otherwise it fits one classifier per candidate and
\* fold.  The recalls and the features are not part of the state: a fit, a
\* score or the debugger breakpoint that ends every pass over the folds either
\* goes on or raises, after any number of fits.  Nothing is stored on self.
classify ==
    /\ cls = SubjectClassifier
    /\ IF DOMAIN cross_val_dict = {}
       THEN last_call' = Call("classify", "reported", 0, FALSE)
       ELSE IF IsNone(subject_data)
       THEN last_call' = Call("classify", "raised", 0, FALSE)
       ELSE LET single == Cardinality(unique(Column(Get(subject_data), "session"))) = 1
                Cs     == IF single THEN default_C ELSE C
                nfolds == Cardinality(DOMAIN cross_val_dict)
            IN  IF single /\ Len(C) > 1
                THEN last_call' = Call("classify", "reported", 0, FALSE)
                ELSE \E fits \in 0 .. Len(Cs) * nfolds :
                        \E outcome \in {"returned", "raised"} :
                           /\ outcome = "returned" => fits = Len(Cs) * nfolds
                           /\ last_call' = Call("classify", outcome, fits, fits >= nfolds)
    /\ fit_C' = IF last_call'.outcome = "reported" \/ IsNone(subject_data)
                THEN {}
                ELSE Range(IF Cardinality(unique(Column(Get(subject_data), "session"))) = 1
                           THEN default_C ELSE C)
    /\ IF ~Followed \/ last_call'.outcome = "reported" \/ IsNone(subject_data)
       THEN /\ fold_x' = <<>>
            /\ UNCHANGED data
       ELSE LET X == FoldInput(feat_type, data, Column(Get(subject_data), "session"),
                               Get(task_phase), train_phase \cup test_phase)
            IN  /\ fold_x' = [cv \in DOMAIN cross_val_dict |->
                                 ClassifyFoldX(X, cross_val_dict[cv], train_phase, test_phase)]
                /\ \E view \in BOOLEAN : data' = IF view THEN X ELSE data
    /\ UNCHANGED <<clusterVars, feat_type, batch, waves, task, subj_features, subject_data, train_phase, test_phase,
                   cross_val_dict, task_phase, subj_res, C, cv_masks, fn_in, fn_out>>

\* ClassifyTH.run_classify_for_single_subj(), exclude_by_rec_time and
\* compute_pval False as by default: the features are read, the phases renamed,
\* the fold keys chosen and compute_classifier called with them.  With one
\* session compute_classifier takes default_C for the candidates.  It fits one
\* classifier per candidate and fold and one more on all the data, and either
\* completes or raises after any number of fits, as classify does.  Of the
\* result the model keeps what compute_classifier is given and hands back, and
\* the masks of its folds.
run_classify_for_single_subj ==
    /\ cls = ClassifyTH
    /\ LET tp == ClassifyTHTaskPhase(subj_features, task)
           sessions == Column(subj_features, "session")
           sel == cv_sel(subj_features, task)
           Cs  == IF Cardinality(unique(sessions)) = 1 THEN default_C ELSE C
           total == Len(Cs) * Cardinality(unique(sel)) + 1
           X   == FoldInput(feat_type, data, sessions, tp,
                            CommonPhases(train_phase) \cup CommonPhases(test_phase))
       IN  /\ cv_masks' = CvMasks(sel, tp, train_phase, test_phase)
           /\ IF ~Followed THEN fold_x' = <<>>
              ELSE \E strict \in BOOLEAN :
                      fold_x' = [cv \in unique(sel) |->
                                   ComputeFoldX(strict, X, cv_masks'[cv], tp,
                                                CommonPhases(train_phase),
                                                CommonPhases(test_phase))]
           /\ \E fits \in 0 .. total :
                 \E outcome \in {"returned", "raised"} :
                    /\ outcome = "returned" => fits = total
                    /\ (\E cv \in DOMAIN fold_x' : fold_x'[cv].raised) =>
                          outcome = "raised" /\ fits < Cardinality(unique(sel))
                    /\ last_call' = Call("run_classify_for_single_subj", outcome, fits,
                                    outcome = "returned")
                    /\ fit_C' = Range(Cs)
                    /\ IF outcome = "raised"
                       THEN UNCHANGED subj_res
                       ELSE \E aliased \in BOOLEAN,
                               best \in BestCandidates(C, Cardinality(unique(sessions)) > 1) :
                               subj_res' = Some(
                                 [lr_classifier_C |-> C[best],
                                  sessions   |-> sessions,
                                  cv_sel     |-> sel,
                                  task_phase |-> tp,
                                  cv_type    |-> IF Cardinality(unique(sessions)) > 1
                                                 THEN "loso" ELSE "lolo",
                                  events     |-> IF aliased THEN WithTypes(subj_features, tp)
                                                 ELSE subj_features])
    /\ UNCHANGED <<clusterVars, feat_type, data, batch, waves, task, subj_features,
                   subject_data, train_phase, test_phase, cross_val_dict, task_phase, C,
                   fn_in, fn_out>>

NextCrossVal ==
    \/ SetTrainPhase
    \/ SetTestPhase
    \/ load_data
    \/ make_cross_val_labels
    \/ run_classify_for_single_subj

SpecCrossVal == InitClassifier /\ [][NextCrossVal]_vars

NextClassify ==
    \/ SetC
    \/ load_data
    \/ make_cross_val_labels
    \/ remove_abridged_sessions
    \/ classify
    \/ run_classify_for_single_subj

SpecClassify == InitClassifier /\ [][NextClassify]_vars

\* a classifier whose feature values are followed: one raw row per event, the
\* features power, which is normalized by session, or of another type, and
\* the train and test phases as they were set before the data is loaded
InitFeatures ==
    /\ cls \in {SubjectClassifier, ClassifyTH}
    /\ task = "RAM_TH1"
    /\ subj_features \in EventTables(task)
    /\ subject_data = Unset
    /\ train_phase \in PhaseChoices
    /\ test_phase \in PhaseChoices
    /\ cross_val_dict = <<>>
    /\ task_phase = Unset
    /\ subj_res = Unset
    /\ C = default_C
    /\ cv_masks = <<>>
    /\ last_call = Call("__init__", "returned", 0, FALSE)
    /\ fn_in = <<>>
    /\ fn_out = Unset
    /\ feat_type \in {"power", "pow_by_phase"}
    /\ data = RawData(subj_features)
    /\ fold_x = <<>>
    /\ fit_C = {}
    /\ batch = None
    /\ waves = None
    /\ pc = "init"
    /\ NoCluster

NextFeatures ==
    \/ load_data
    \/ make_cross_val_labels
    \/ classify
    \/ run_classify_for_single_subj

SpecFeatures == InitFeatures /\ [][NextFeatures]_vars

\* an event of the task: session, trial or list, type
MkEvent(tk, s, l, t) ==
    IF tk = "RAM_TH1" THEN [session |-> s, trial |-> l, type |-> t]
    ELSE [session |-> s, list |-> l, type |-> t]

\* the numbers of lists a session is given: around the n_lists of both tasks
ListCountChoices ==
    {n_lists_RAM_FR1 - 1, n_lists_RAM_FR1, n_lists_RAM_FR1 + 1,
     n_lists_RAM_TH1 - 1, n_lists_RAM_TH1, n_lists_RAM_TH1 + 1}

RECURSIVE SessionsTable(_, _, _)
\* the events of the sessions 0 .. k - 1, counts[s] lists in session s and one
\* encoding event in each list
SessionsTable(tk, counts, k) ==
    IF k = 0 THEN <<>>
    ELSE SessionsTable(tk, counts, k - 1)
           \o [l \in 1 .. counts[k - 1] |-> MkEvent(tk, k - 1, l - 1, enc_str(tk))]

\* the event tables of subjects with full and with abridged sessions
ExclusionTables(tk) ==
    UNION {{SessionsTable(tk, counts, k) : counts \in [0 .. k - 1 -> ListCountChoices]} :
              k \in 1 .. NumSessions}

\* a SubjectClassifier for a subject whose sessions may be abridged
InitExclusions ==
    /\ cls = SubjectClassifier
    /\ task \in Tasks
    /\ subj_features \in ExclusionTables(task)
    /\ subject_data = Unset
    /\ train_phase = {"enc"}
    /\ test_phase = {"enc"}
    /\ cross_val_dict = <<>>
    /\ task_phase = Unset
    /\ subj_res = Unset
    /\ C = default_C
    /\ cv_masks = <<>>
    /\ last_call = Call("__init__", "returned", 0, FALSE)
    /\ fn_in = <<>>
    /\ fn_out = Unset
    /\ feat_type = "power"
    /\ data = <<>>
    /\ fold_x = <<>>
    /\ fit_C = {}
    /\ batch = None
    /\ waves = None
    /\ pc = "init"
    /\ elec_info = None /\ peaks = None /\ nrec_peaks = None
    /\ min_elec_dist = None /\ near_dist = None /\ separate_hemis = None
    /\ min_num_elecs = None /\ cluster_freq_range = None /\ elec_types_allowed = None
    /\ near_adj_matr = None /\ allowed_elecs = None /\ clusters = None
    /\ rec_clusters = None /\ nrec_clusters = None

NextExclusions ==
    \/ load_data
    \/ remove_abridged_sessions

SpecExclusions == InitExclusions /\ [][NextExclusions]_vars

(***************************************************************************)
(* The numerical routines inside the loops of classify and of              *)
(* compute_classifier: the observation weights of a fold and the bias      *)
(* corrected AUC.  A float is kept as a fraction of integers, reduced, with *)
(* den = 0 for what a division by zero yields: inf (num 1) or nan (num 0).  *)
(***************************************************************************)
RECURSIVE GCD(_, _)
GCD(a, b) == IF b = 0 THEN a ELSE GCD(b, a % b)

\* the float n / d, for n >= 0 and d >= 0
Float(n, d) ==
    IF d = 0 THEN [num |-> IF n > 0 THEN 1 ELSE 0, den |-> 0]
    ELSE LET g == GCD(n, d) IN [num |-> n \div g, den |-> d \div g]

Inf == [num |-> 1, den |-> 0]

\* a + b
FAdd(a, b) ==
    IF a = NaN \/ b = NaN THEN NaN
    ELSE IF a.den = 0 \/ b.den = 0 THEN Inf
    ELSE Float(a.num * b.den + b.num * a.den, a.den * b.den)

\* a / b: inf / inf and 0 / 0 are nan, x / inf is 0
FDiv(a, b) == Float(a.num * b.den, a.den * b.num)

\* a * k for an integer k > 0
FTimes(a, k) == Float(a.num * k, a.den)

RECURSIVE FSum(_, _)
\* the sum of the first n entries of v
FSum(v, n) == IF n = 0 THEN Float(0, 1) ELSE FAdd(FSum(v, n - 1), v[n])

\* np.mean(v): nan for an empty v
FMean(v) == FDiv(FSum(v, Len(v)), Float(Len(v), 1))

\* np.bincount(y_ind): entry c + 1 counts the events of class c, for the
\* classes up to the largest that occurs
bincount(y_ind) ==
    LET top == CHOOSE m \in Range(y_ind) : \A x \in Range(y_ind) : x <= m
    IN  [c \in 1 .. top + 1 |-> Cardinality({e \in DOMAIN y_ind : y_ind[e] = c - 1})]

\* v divided by its sum
DividedBySum(v) == [c \in DOMAIN v |-> FDiv(v[c], FSum(v, Len(v)))]

\* recip_freq /= np.mean(recip_freq)
DividedByMean(v) == [c \in DOMAIN v |-> FDiv(v[c], FMean(v))]

\* recip_freq = 1. / np.bincount(y_ind); recip_freq /= np.mean(recip_freq);
\* and, when training on both phases with scale_enc set,
\* recip_freq[:2] *= self.scale_enc; recip_freq /= np.mean(recip_freq)
recip_freq(y_ind, scaled, scale_enc) ==
    LET counts == bincount(y_ind)
        r == DividedByMean([c \in DOMAIN counts |-> Float(1, counts[c])])
    IN  IF scaled
        THEN DividedByMean([c \in DOMAIN r |-> IF c <= 2 THEN FTimes(r[c], scale_enc) ELSE r[c]])
        ELSE r

\* weights = recip_freq[y_ind]
Weights(y_ind, scaled, scale_enc) ==
    LET r == recip_freq(y_ind, scaled, scale_enc)
    IN  [e \in DOMAIN y_ind |-> r[y_ind[e] + 1]]

\* largest number of training events of a fold
MaxTrain == 5
\* largest value of scale_enc
MaxScale == 2

\* the class indices of the training events of a fold, 0 and 1 for the recall
\* labels, 2 and 3 for those of the retrieval events when the encoding classes
\* are to be scaled; with whether they are, and scale_enc
WeightInputs ==
    {[kind |-> "weights", y_ind |-> y, scaled |-> FALSE, scale_enc |-> 1] :
        y \in UNION {[1 .. n -> 0 .. 1] : n \in 1 .. MaxTrain}}
    \cup
    {[kind |-> "weights", y_ind |-> y, scaled |-> TRUE, scale_enc |-> sc] :
        y \in UNION {[1 .. n -> 0 .. 3] : n \in 1 .. MaxTrain}, sc \in 1 .. MaxScale}

\* the AUC values are multiples of 1 / AucLevels
AucLevels == 2

\* the smallest AUC of the fold f
RowMin(a, f) == CHOOSE x \in Range(a[f]) : \A y \in Range(a[f]) : x <= y

\* fold_aucs.max(axis=1), for the fold f
RowMax(a, f) == CHOOSE x \in Range(a[f]) : \A y \in Range(a[f]) : x >= y

\* the sum of fold_aucs over the folds, for the candidate c: aucs[c] times the
\* number of folds
ColSum(a, c) == SumOver([f \in DOMAIN a |-> a[f][c]], DOMAIN a)

\* the first index, whatever the entries
FirstIndex(v) == CHOOSE c \in DOMAIN v : \A d \in DOMAIN v : c <= d

\* np.argmax(v): the first index of the largest entry
argmax(v) == CHOOSE c \in DOMAIN v : /\ \A d \in DOMAIN v : v[d] <= v[c]
                                     /\ \A d \in DOMAIN v : d < c => v[d] < v[c]

\* aucs = fold_aucs.mean(axis=0);
\* bias = np.mean(fold_aucs.max(axis=1) - fold_aucs[:, np.argmax(aucs)]);
\* auc = aucs.max() - bias.  Every value is kept as an integer numerator over
\* the number of folds times AucLevels.
BiasCorrected(a) ==
    LET cands == DOMAIN a[1]
        sums  == [c \in cands |-> ColSum(a, c)]
        best  == argmax(sums)
        bias  == SumOver([f \in DOMAIN a |-> RowMax(a, f) - a[f][best]], DOMAIN a)
    IN  [bias |-> [num |-> bias, den |-> Len(a) * AucLevels],
         auc  |-> [num |-> sums[best] - bias, den |-> Len(a) * AucLevels]]

\* the fold-by-candidate matrices of leave-one-session-out runs: two folds or
\* more, one candidate or more, every entry an AUC in units of 1 / AucLevels
BiasInputs ==
    {[kind |-> "bias", fold_aucs |-> a] :
        a \in UNION {[1 .. f -> [1 .. c -> 0 .. AucLevels]] :
                        f \in 2 .. NumSessions, c \in 1 .. MaxCandidates}}

\* a fold, or a run over the folds, about to compute its numbers
InitNumeric ==
    /\ cls \in {SubjectClassifier, ClassifyTH}
    /\ fn_in \in WeightInputs \cup BiasInputs
    /\ fn_out = Unset
    /\ Idle
    /\ task = "RAM_TH1"
    /\ subj_features = <<>>
    /\ subject_data = Unset
    /\ train_phase = {"enc"}
    /\ test_phase = {"enc"}
    /\ cross_val_dict = <<>>
    /\ task_phase = Unset
    /\ subj_res = Unset
    /\ C = default_C
    /\ cv_masks = <<>>
    /\ last_call = Call("__init__", "returned", 0, FALSE)
    /\ pc = "init"
    /\ elec_info = None /\ peaks = None /\ nrec_peaks = None
    /\ min_elec_dist = None /\ near_dist = None /\ separate_hemis = None
    /\ min_num_elecs = None /\ cluster_freq_range = None /\ elec_types_allowed = None
    /\ near_adj_matr = None /\ allowed_elecs = None /\ clusters = None
    /\ rec_clusters = None /\ nrec_clusters = None

\* the weights of the training events of a fold are computed
observation_weights ==
    /\ fn_in.kind = "weights"
    /\ IsNone(fn_out)
    /\ fn_out' = Some([recip_freq |-> recip_freq(fn_in.y_ind, fn_in.scaled, fn_in.scale_enc),
                       weights    |-> Weights(fn_in.y_ind, fn_in.scaled, fn_in.scale_enc)])
    /\ UNCHANGED <<clusterVars, moreVars, task, subj_features, subject_data, train_phase, test_phase,
                   cross_val_dict, task_phase, subj_res, C, cv_masks, last_call, fn_in>>

\* the bias and the AUC of a leave-one-session-out run are computed
bias_corrected_auc ==
    /\ fn_in.kind = "bias"
    /\ IsNone(fn_out)
    /\ fn_out' = Some(BiasCorrected(fn_in.fold_aucs))
    /\ UNCHANGED <<clusterVars, moreVars, task, subj_features, subject_data, train_phase, test_phase,
                   cross_val_dict, task_phase, subj_res, C, cv_masks, last_call, fn_in>>

NextNumeric ==
    \/ observation_weights
    \/ bias_corrected_auc

SpecNumeric == InitNumeric /\ [][NextNumeric]_vars

(***************************************************************************)
(* subject_traveling_wave.py: SubjectTravelingWaveAnalysis.analysis.  For  *)
(* each cluster the per-time-point regressions are handed to               *)
(* joblib.Parallel, which runs up to n_jobs of them at a time and gives    *)
(* the call back the list of their results once all of them are there, or  *)
(* raises in the caller what one of them raised.                           *)
(***************************************************************************)
TravelingWave == "SubjectTravelingWaveAnalysis"

\* largest number of cluster columns of self.res['clusters']
MaxClusters == 2
\* largest number of time points of the interval of interest
MaxTimes == 2
\* Parallel(n_jobs=12, ...)
n_jobs == 12

ClusterNames == 1 .. MaxClusters
TimePoints(n) == 1 .. n

\* the units of work of one Parallel call
Running(units) == {t \in DOMAIN units : units[t] = "running"}
SomeDone(units) == \E t \in DOMAIN units : units[t] = "done"
AllDone(units) == \A t \in DOMAIN units : units[t] = "done"
SomeRaised(units) == \E t \in DOMAIN units : units[t] = "raised"

\* the object before analysis(): with or without data, with or without the
\* clusters of an earlier cluster analysis, and with whatever an earlier run
\* left in self.res['traveling_waves']
InitWaves ==
    /\ cls = TravelingWave
    /\ pc = "init"
    /\ waves \in [pc            : {"init"},
                  has_data      : BOOLEAN,
                  has_clusters  : BOOLEAN,
                  cluster_names : {[k \in 1 .. n |-> k] : n \in 0 .. MaxClusters},
                  num_times     : 0 .. MaxTimes,
                  i             : {0},
                  units         : {<<>>},
                  stored        : SUBSET ClusterNames]
    /\ feat_type = None /\ data = None /\ fold_x = None /\ fit_C = None /\ batch = None
    /\ elec_info = None /\ peaks = None /\ nrec_peaks = None
    /\ min_elec_dist = None /\ near_dist = None /\ separate_hemis = None
    /\ min_num_elecs = None /\ cluster_freq_range = None /\ elec_types_allowed = None
    /\ near_adj_matr = None /\ allowed_elecs = None /\ clusters = None
    /\ rec_clusters = None /\ nrec_clusters = None
    /\ NoClassifier

waveRest == <<pc, inputVars, configVars, resultVars, classifierVars, feat_type, data, fold_x,
              fit_C, batch>>

\* analysis() up to the loop over the clusters: the two early returns, and
\* self.res['traveling_waves'] = {}
wave_analysis ==
    /\ waves.pc = "init"
    /\ IF ~waves.has_data \/ ~waves.has_clusters
       THEN waves' = [waves EXCEPT !.pc = "reported"]
       ELSE waves' = [waves EXCEPT !.pc = IF waves.cluster_names = <<>> THEN "returned"
                                           ELSE "cluster",
                                   !.i = 1,
                                   !.stored = {}]
    /\ UNCHANGED waveRest

\* the loop body up to the Parallel call: the units of work are queued
parallel_call ==
    /\ waves.pc = "cluster"
    /\ waves' = [waves EXCEPT !.pc = "parallel",
                              !.units = [t \in TimePoints(waves.num_times) |-> "queued"]]
    /\ UNCHANGED waveRest

\* a worker takes a queued unit
worker_start ==
    /\ waves.pc = "parallel"
    /\ Cardinality(Running(waves.units)) < n_jobs
    /\ \E t \in DOMAIN waves.units :
          /\ waves.units[t] = "queued"
          /\ waves' = [waves EXCEPT !.units[t] = "running"]
    /\ UNCHANGED waveRest

\* circ_lin_regress returns in a worker
worker_return ==
    /\ waves.pc = "parallel"
    /\ \E t \in DOMAIN waves.units :
          /\ waves.units[t] = "running"
          /\ waves' = [waves EXCEPT !.units[t] = "done"]
    /\ UNCHANGED waveRest

\* circ_lin_regress raises in a worker
worker_raise ==
    /\ waves.pc = "parallel"
    /\ \E t \in DOMAIN waves.units :
          /\ waves.units[t] = "running"
          /\ waves' = [waves EXCEPT !.units[t] = "raised"]
    /\ UNCHANGED waveRest

\* the units whose results the Parallel call hands back are all there
ResultsOfSome(units) == SomeDone(units)
ResultsReady(units) == AllDone(units)

\* the Parallel call returns res_as_list and the rest of the loop body runs:
\* the results are stacked (np.stack raises on an empty list), the cluster's
\* result is stored, and the loop goes on to the next cluster
aggregate ==
    /\ waves.pc = "parallel"
    /\ ResultsReady(waves.units)
    /\ IF waves.num_times = 0
       THEN waves' = [waves EXCEPT !.pc = "raised"]
       ELSE waves' = [waves EXCEPT !.pc = IF waves.i = Len(waves.cluster_names)
                                           THEN "returned" ELSE "cluster",
                                   !.i = IF waves.i = Len(waves.cluster_names)
                                          THEN waves.i ELSE waves.i + 1,
                                   !.stored = waves.stored \cup {waves.cluster_names[waves.i]}]
    /\ UNCHANGED waveRest

\* the Parallel call raises what a worker raised; analysis() catches nothing
parallel_raise ==
    /\ waves.pc = "parallel"
    /\ SomeRaised(waves.units)
    /\ waves' = [waves EXCEPT !.pc = "raised"]
    /\ UNCHANGED waveRest

NextWaves ==
    \/ wave_analysis
    \/ parallel_call
    \/ worker_start
    \/ worker_return
    \/ worker_raise
    \/ aggregate
    \/ parallel_raise

SpecWaves == InitWaves /\ [][NextWaves]_vars

(***************************************************************************)
(* classify.py: the subject loop of ClassifyTH.run_classify_for_all_subjs  *)
(* and SubjectClassifier.run_classifier, as far as they decide between a   *)
(* stored result, stored features and a new computation.  An event table,  *)
(* a feature file and a result file are kept as their numbers of events.   *)
(***************************************************************************)
\* largest number of subjects of self.subjs
MaxSubjs == 2

\* the numbers of events of a subject, of a feature file and of a result file
EventCounts == {1, 2}

\* a count that may be missing: events that cannot be loaded, a file that does
\* not exist
OptCounts == {Unset} \cup {Some(n) : n \in EventCounts}

\* the subjects of line 609 and another one
features_kept_for == {"R1208C", "R1201P_1"}
SubjNames == {"R1001P", "R1208C"}

\* a subject of the batch: its events as load_subj_events gives them now (None
\* when it raises), and the counts of its result file and of its feature file
Subjects == [subj : SubjNames, events : OptCounts, save_file : OptCounts, feat_file : OptCounts]

\* what one pass of the loop did for its subject: whose events the checks
\* read (0 when none was made), how the pass ended, overwrite_features as
\* handed on, whether the features were computed (and written to the feature
\* file) and the classifier run, the number of events of the features the
\* classifier was given, and that of the result written to the result file
Pass(events_of, decision, overwrite, computed, classified, used, saved) ==
    [events_of |-> events_of, decision |-> decision, overwrite_features |-> overwrite,
     computed |-> computed, classified |-> classified, used |-> used, saved |-> saved]

\* len(events) != len(feat_data['events'])
CountGrew(n_events, n_file) == n_events > n_file
CountChanged(n_events, n_file) == n_events # n_file

\* lines 594-617: the checks of a pass that finds events to compare with.  They
\* give "continue" or the overwrite_features handed to
\* run_classify_for_single_subj
CacheChecks(s, n_events, force_reclass) ==
    LET skip == /\ s.save_file # {}
                /\ n_events = Get(s.save_file)
                /\ ~force_reclass
        o1   == s.save_file # {} /\ n_events # Get(s.save_file)
        o2   == IF s.feat_file = {} THEN o1
                ELSE IF s.subj \in features_kept_for THEN FALSE
                ELSE o1 \/ CountChanged(n_events, Get(s.feat_file))
    IN  [skip |-> skip, overwrite_features |-> o2]

\* ClassifyTH before run_classify_for_all_subjs: the subjects, their files,
\* force_reclass set or not, and save_class as __init__ leaves it
InitBatchTH ==
    /\ cls = ClassifyTH
    /\ batch \in [subjs         : UNION {[1 .. n -> Subjects] : n \in 1 .. MaxSubjs},
                  force_reclass : BOOLEAN,
                  save_class    : {TRUE},
                  pc            : {"loop"},
                  events        : {Unset},
                  log           : {<<>>}]

\* a SubjectClassifier before run_classifier: with data or without, with a
\* result file or without, load_class_res_if_file_exists set or not, and
\* self.class_res as __init__ or an earlier call left it
InitBatchSC ==
    /\ cls = SubjectClassifier
    /\ batch \in [subject_data                   : OptCounts,
                  class_save_file                : OptCounts,
                  load_class_res_if_file_exists  : BOOLEAN,
                  class_res                      : OptCounts,
                  log                            : {<<>>}]

InitBatch ==
    /\ InitBatchTH \/ InitBatchSC
    /\ pc = "init"
    /\ feat_type = "power" /\ data = None /\ fold_x = None /\ fit_C = None /\ waves = None
    /\ elec_info = None /\ peaks = None /\ nrec_peaks = None
    /\ min_elec_dist = None /\ near_dist = None /\ separate_hemis = None
    /\ min_num_elecs = None /\ cluster_freq_range = None /\ elec_types_allowed = None
    /\ near_adj_matr = None /\ allowed_elecs = None /\ clusters = None
    /\ rec_clusters = None /\ nrec_clusters = None
    /\ NoClassifier

batchRest == <<pc, inputVars, configVars, resultVars, classifierVars, feat_type, data, fold_x,
               fit_C, waves>>

\* one pass of the loop of run_classify_for_all_subjs, for the subject at
\* position Len(batch.log) + 1.  The events are loaded, and kept as they were
\* when that raises; the checks read len(events), which raises when events
\* was never bound; the features are then computed, which loads the subject's
\* events again and raises when that fails, or read from the feature file;
\* the classifier returns or raises, and its result is saved.
batch_pass ==
    /\ cls = ClassifyTH
    /\ batch.pc = "loop"
    /\ LET k  == Len(batch.log) + 1
           s  == batch.subjs[k]
           ev == IF s.events # {} THEN Some([of |-> k, n |-> Get(s.events)]) ELSE batch.events
           checked == s.save_file # {} \/ s.feat_file # {}
           next_pc == IF k = Len(batch.subjs) THEN "returned" ELSE "loop"
       IN  IF checked /\ ev = {}
           THEN batch' = [batch EXCEPT !.pc = "raised",
                                       !.log = Append(@, Pass(0, "raised", FALSE, FALSE, FALSE,
                                                              Unset, Unset))]
           ELSE LET of  == IF checked THEN Get(ev).of ELSE 0
                    chk == IF checked THEN CacheChecks(s, Get(ev).n, batch.force_reclass)
                           ELSE [skip |-> FALSE, overwrite_features |-> FALSE]
                    compute == s.feat_file = {} \/ chk.overwrite_features
                    feats == IF compute THEN s.events ELSE s.feat_file
                IN  IF chk.skip
                    THEN batch' = [batch EXCEPT !.pc = next_pc, !.events = ev,
                                      !.log = Append(@, Pass(of, "skipped", FALSE, FALSE, FALSE,
                                                             Unset, Unset))]
                    ELSE IF compute /\ s.events = {}
                    THEN batch' = [batch EXCEPT !.pc = "raised", !.events = ev,
                                      !.log = Append(@, Pass(of, "raised",
                                                             chk.overwrite_features, compute,
                                                             FALSE, Unset, Unset))]
                    ELSE \E fitted \in BOOLEAN :
                            batch' = [batch EXCEPT
                                      !.pc = IF fitted THEN next_pc ELSE "raised",
                                      !.events = ev,
                                      !.log = Append(@, Pass(of,
                                                  IF fitted THEN "classified" ELSE "raised",
                                                  chk.overwrite_features, compute, TRUE, feats,
                                                  IF fitted /\ batch.save_class THEN feats
                                                  ELSE Unset))]
    /\ UNCHANGED batchRest

\* SubjectClassifier.run_classifier(): a message without data; the stored
\* result is loaded when it is asked for and the file is there; the folds are
\* planned and classify() is called when self.class_res is still None
run_classifier ==
    /\ cls = SubjectClassifier
    /\ IF batch.subject_data = {}
       THEN batch' = [batch EXCEPT !.log = Append(@, Pass(0, "reported", FALSE, FALSE, FALSE,
                                                          Unset, Unset))]
       ELSE LET res == IF batch.load_class_res_if_file_exists /\ batch.class_save_file # {}
                       THEN batch.class_save_file ELSE batch.class_res
            IN  batch' = [batch EXCEPT
                          !.class_res = res,
                          !.log = Append(@, IF res = {}
                                            THEN Pass(0, "classified", FALSE, FALSE, TRUE,
                                                      batch.subject_data, Unset)
                                            ELSE Pass(0, "skipped", FALSE, FALSE, FALSE, Unset,
                                                      Unset))]
    /\ Len(batch.log) < MaxSubjs
    /\ UNCHANGED batchRest

NextBatch ==
    \/ batch_pass
    \/ run_classifier

SpecBatch == InitBatch /\ [][NextBatch]_vars

(***************************************************************************)
(* What the claims speak of, stated from the inputs alone.                 *)
(***************************************************************************)
\* analysis() has returned
AnalysisDone == pc = "done"

\* the squared euclidean distance of two electrodes of the table
EuclidSq(i, j) ==
    Sq(elec_info[i].x - elec_info[j].x) + Sq(elec_info[i].y - elec_info[j].y)
        + Sq(elec_info[i].z - elec_info[j].z)

\* the distance threshold configured on the object
ConfiguredDist == IF cls = OscCluster THEN min_elec_dist ELSE near_dist

(***************************************************************************)
(* C1.  For every pair of electrodes (i, j) the adjacency matrix has entry *)
(* (i, j) true if and only if 0 < euclidean_distance(i, j) < d, d the      *)
(* distance threshold configured on the analysis object (min_elec_dist,    *)
(* near_dist).  SubjectElecCluster compares with the literal 15 whatever   *)
(* near_dist is, and SubjectOscillationClusterAnalysis measures the        *)
(* distance after moving the left hemisphere 100 mm away.                  *)
(***************************************************************************)
C1_AdjacencyIffWithinThreshold ==
    AnalysisDone =>
        \A i, j \in Elecs(elec_info) :
            near_adj_matr[i][j] <=> (0 < EuclidSq(i, j) /\ EuclidSq(i, j) < Sq(ConfiguredDist))

(***************************************************************************)
(* C2.  The adjacency matrix is symmetric, adj[i][j] = adj[j][i] for all   *)
(* i and j, and its diagonal is false.                                     *)
(***************************************************************************)
C2_AdjacencySymmetricIrreflexive ==
    AnalysisDone =>
        \A i, j \in Elecs(elec_info) :
            /\ near_adj_matr[i][j] = near_adj_matr[j][i]
            /\ ~near_adj_matr[i][i]

\* an adjacency matrix with a near pair, a far pair and a pair at the same point
C2_Witness ==
    /\ AnalysisDone
    /\ cls = OscCluster
    /\ \E i, j \in Elecs(elec_info) : near_adj_matr[i][j]
    /\ \E i, j \in Elecs(elec_info) : i # j /\ EuclidSq(i, j) = 0 /\ ~near_adj_matr[i][j]
    /\ \E i, j \in Elecs(elec_info) : EuclidSq(i, j) >= Sq(min_elec_dist) /\ ~near_adj_matr[i][j]

\* the absolute value
Abs(a) == IF a < 0 THEN 0 - a ELSE a

\* bin f lies in the window of width cluster_freq_range around the center c
InWindow(f, c) == 2 * Abs(freqs[f] - c) <= cluster_freq_range

\* the electrode passes the allow-mask (SubjectElecCluster has none)
IsAllowed(e) == cls = ElecCluster \/ elec_info[e].type \in elec_types_allowed

\* the bins of the window around c at which electrode e has a peak in the array pk
PeakBinsIn(pk, e, c) == {f \in FreqBins : pk[f][e] /\ InWindow(f, c)}

\* the electrodes that have a peak in the window around c and pass the allow-mask
Eligible(pk, c) == {e \in Elecs(elec_info) : IsAllowed(e) /\ PeakBinsIn(pk, e, c) # {}}

\* i and j are linked by a chain of near pairs of electrodes of S
Linked(S, i, j) ==
    \E n \in 1 .. Cardinality(S) : \E path \in [1 .. n -> S] :
        /\ path[1] = i
        /\ path[n] = j
        /\ \A k \in 1 .. n - 1 : near_adj_matr[path[k]][path[k + 1]]

\* the connected component of i among the electrodes of S
Component(S, i) == {j \in S : Linked(S, i, j)}

\* the mappings the analysis stored, each as center -> list of clusters, with the
\* peak array it was computed from
Results ==
    IF cls = OscCluster
    THEN {[pk |-> peaks, res |-> [c \in DOMAIN clusters |-> clusters[c].elecs]]}
    ELSE {[pk |-> peaks, res |-> rec_clusters], [pk |-> nrec_peaks, res |-> nrec_clusters]}

\* the peak array has no true entry
NoPeak(pk) == \A f \in FreqBins : \A e \in Elecs(elec_info) : ~pk[f][e]

(***************************************************************************)
(* C3.  The clusters returned for a window are exactly the connected       *)
(* components, under the near relation, of the electrodes that have a peak *)
(* in the window and pass the allow-mask: every member of a cluster is     *)
(* such an electrode, and two of them are in the same cluster iff a chain  *)
(* of near pairs among them links them; for every min_num_elecs, 0 and 1   *)
(* included (a component is returned if it has min_num_elecs members).     *)
(***************************************************************************)
C3_ClustersAreComponents ==
    AnalysisDone =>
        \A R \in Results : \A c \in DOMAIN R.res :
            LET S == Eligible(R.pk, c)
                returned == {Range(R.res[c][k]) : k \in DOMAIN R.res[c]}
            IN  /\ \A cl \in returned : cl \subseteq S /\ \A i \in cl : cl = Component(S, i)
                /\ \A i \in S :
                     Cardinality(Component(S, i)) >= min_num_elecs => Component(S, i) \in returned

(***************************************************************************)
(* C4.  No cluster of the returned mapping has fewer than min_num_elecs    *)
(* members.                                                                *)
(***************************************************************************)
C4_NoClusterBelowMinimum ==
    AnalysisDone =>
        \A R \in Results : \A c \in DOMAIN R.res : \A k \in DOMAIN R.res[c] :
            Len(R.res[c][k]) >= min_num_elecs

\* a window kept for a cluster of two or more while an electrode with a peak in
\* it, in a smaller component, was dropped
C4_Witness ==
    /\ AnalysisDone
    /\ cls = OscCluster
    /\ min_num_elecs >= 2
    /\ \E c \in DOMAIN clusters : \E e \in Eligible(peaks, c) :
          \A k \in DOMAIN clusters[c].elecs : e \notin Range(clusters[c].elecs[k])

(***************************************************************************)
(* C5.  For a peak array with no true entry the returned mapping is empty: *)
(* no center frequency and no cluster, for every adjacency matrix and      *)
(* every min_num_elecs.                                                    *)
(***************************************************************************)
C5_NoPeaksNoClusters ==
    AnalysisDone => \A R \in Results : NoPeak(R.pk) => DOMAIN R.res = {}

\* the analysis has run on an empty peak array with a minimum size that single
\* electrodes meet
C5_Witness ==
    /\ AnalysisDone
    /\ cls = OscCluster
    /\ NoPeak(peaks)
    /\ min_num_elecs <= 1
    /\ \E i, j \in Elecs(elec_info) : near_adj_matr[i][j]

\* no electrode of the table is of an allowed type
NoneAllowed == \A e \in Elecs(elec_info) : elec_info[e].type \notin elec_types_allowed

(***************************************************************************)
(* C6.  When no electrode is of an allowed type the clustering step        *)
(* completes and the returned mapping holds no cluster, whatever the peak  *)
(* array and the adjacency matrix.  (analysis() has no step that can fail  *)
(* on a mask that is false everywhere: from every such state it runs to    *)
(* the state in which it has returned.)                                    *)
(***************************************************************************)
C6_NoAllowedElectrodeNoClusters ==
    (AnalysisDone /\ cls = OscCluster /\ NoneAllowed) => DOMAIN clusters = {}

\* the analysis has run with every electrode masked out, on peaks that two near
\* electrodes share
C6_Witness ==
    /\ AnalysisDone
    /\ cls = OscCluster
    /\ NoneAllowed
    /\ \E i, j \in Elecs(elec_info) : \E f \in FreqBins :
          near_adj_matr[i][j] /\ peaks[f][i] /\ peaks[f][j]

\* the center frequencies of the windows of the analysis
Centers == IF cls = OscCluster THEN Range(window_centers) ELSE Range(ElecClusterWindowCenters)

\* the filter discards every component of the graph of the window around c: single
\* electrodes, and every group of linked electrodes with a peak in the window
AllDiscarded(pk, c) ==
    /\ min_num_elecs > 1
    /\ \A i \in Eligible(pk, c) : Cardinality(Component(Eligible(pk, c), i)) < min_num_elecs

(***************************************************************************)
(* C7.  Every center frequency that is a key of the returned mapping has   *)
(* at least one cluster stored under it, and a center frequency whose      *)
(* components were all discarded by the minimum-size filter is not a key.  *)
(***************************************************************************)
C7_KeysHaveClusters ==
    AnalysisDone =>
        \A R \in Results :
            /\ \A c \in DOMAIN R.res : Len(R.res[c]) >= 1
            /\ \A c \in Centers : AllDiscarded(R.pk, c) => c \notin DOMAIN R.res

\* a window with more electrodes with a peak than the windows 1 Hz beside it, all
\* of them in components below the minimum size, after the analysis
C7_Witness ==
    /\ AnalysisDone
    /\ cls = OscCluster
    /\ \E c \in Centers :
          /\ c - 10 \in Centers /\ c + 10 \in Centers
          /\ Cardinality(Eligible(peaks, c)) > Cardinality(Eligible(peaks, c - 10))
          /\ Cardinality(Eligible(peaks, c)) > Cardinality(Eligible(peaks, c + 10))
          /\ AllDiscarded(peaks, c)
          /\ \E i, j \in Eligible(peaks, c) : near_adj_matr[i][j]

\* the electrodes, the adjacency matrix and the peaks of scenario A
ScenarioA ==
    /\ cls = OscCluster
    /\ Elecs(elec_info) = 0 .. 3
    /\ \A i, j \in 0 .. 3 :
          near_adj_matr[i][j] <=> {i, j} \in {{0, 1}, {2, 3}}
    /\ \A e \in 0 .. 3 : IsAllowed(e)
    /\ \A e \in 0 .. 3 : \A w \in Windows :
          PeakBinsIn(peaks, e, window_centers[w]) # {} <=> (w = 2 /\ e \in {0, 1})

(***************************************************************************)
(* C8.  Scenario A: four electrodes, 0 and 1 near each other, 2 and 3 near *)
(* each other, the two pairs not near; only electrodes 0 and 1 have a peak *)
(* and only in window 2.  For every min_num_elecs <= 2 the result is       *)
(* exactly one cluster, {0, 1}, at the center frequency of window 2, and   *)
(* for min_num_elecs = 4 the result has no cluster.                        *)
(***************************************************************************)
C8_ScenarioA ==
    (AnalysisDone /\ ScenarioA) =>
        /\ min_num_elecs <= 2 =>
              /\ DOMAIN clusters = {window_centers[2]}
              /\ Len(clusters[window_centers[2]].elecs) = 1
              /\ Range(clusters[window_centers[2]].elecs[1]) = {0, 1}
        /\ min_num_elecs = 4 => DOMAIN clusters = {}

\* the peak bins of a member in the window, the peaks of an electrode that does
\* not pass the allow-mask being cleared
MemberBins(e, c) == IF IsAllowed(e) THEN PeakBinsIn(peaks, e, c) ELSE {}

\* the fraction stands for the number num / den
IsNumber(fr, num, den) == fr.den # 0 /\ fr.num * den = num * fr.den

\* mean_freqs is the mean of the frequencies the members have: nan as soon as a
\* member has none, else (sum over the members of S/n) / (number of members),
\* S and n the sum and the number of the frequencies of a member
IsMeanOfMembers(mf, members, c) ==
    LET I == DOMAIN members
        n == [i \in I |-> Cardinality(MemberBins(members[i], c))]
        S == [i \in I |-> SumOver(freqs, MemberBins(members[i], c))]
    IN  IF \E i \in I : n[i] = 0 THEN mf.den = 0
        ELSE IsNumber(mf, SumOver([i \in I |-> S[i] * ProdOver(n, I \ {i})], I),
                      Cardinality(I) * ProdOver(n, I))

(***************************************************************************)
(* C9, as the code has it.  For every surviving cluster elec_freqs holds   *)
(* one frequency per member, in member order: the mean of the frequencies  *)
(* of all the peak bins the member has inside the window (nan if it has    *)
(* none, as a member returned for min_num_elecs <= 1 can); and mean_freqs  *)
(* holds the mean of the frequencies recorded for the members.             *)
(***************************************************************************)
C9_ElecFreqsAreWindowMeans ==
    (AnalysisDone /\ cls = OscCluster) =>
        \A c \in DOMAIN clusters :
            LET v == clusters[c]
            IN  /\ DOMAIN v.elec_freqs = DOMAIN v.elecs
                /\ DOMAIN v.mean_freqs = DOMAIN v.elecs
                /\ \A k \in DOMAIN v.elecs :
                      /\ DOMAIN v.elec_freqs[k] = DOMAIN v.elecs[k]
                      /\ \A m \in DOMAIN v.elecs[k] :
                            LET B == MemberBins(v.elecs[k][m], c)
                            IN  IF B = {} THEN v.elec_freqs[k][m].den = 0
                                ELSE IsNumber(v.elec_freqs[k][m], SumOver(freqs, B),
                                              Cardinality(B))
                      /\ IsMeanOfMembers(v.mean_freqs[k], v.elecs[k], c)

\* a cluster of two or more with a member that has two peak bins in the window
C9_Witness ==
    /\ AnalysisDone
    /\ cls = OscCluster
    /\ \E c \in DOMAIN clusters : \E k \in DOMAIN clusters[c].elecs :
          /\ Len(clusters[c].elecs[k]) >= 2
          /\ \E m \in DOMAIN clusters[c].elecs[k] :
                Cardinality(MemberBins(clusters[c].elecs[k][m], c)) >= 2

\* C9 as claimed: the frequency recorded for a member with a peak in the window
\* is the frequency of its peak bin nearest the window center, also when the
\* member has several peak bins in the window
C9_ElecFreqsAreNearestPeaks ==
    (AnalysisDone /\ cls = OscCluster) =>
        \A c \in DOMAIN clusters : \A k \in DOMAIN clusters[c].elecs :
            \A m \in DOMAIN clusters[c].elecs[k] :
                LET B == MemberBins(clusters[c].elecs[k][m], c)
                IN  B # {} =>
                        \E f \in B :
                            /\ \A g \in B : Abs(freqs[f] - c) <= Abs(freqs[g] - c)
                            /\ IsNumber(clusters[c].elec_freqs[k][m], freqs[f], 1)

\* the session ids of the events of the subject
SessionIds == {subj_features[i].session : i \in DOMAIN subj_features}

\* the trial id (RAM_TH1) or the list id of an event
TrialOrListId(i) ==
    IF task = "RAM_TH1" THEN subj_features[i].trial ELSE subj_features[i].list

\* the key of the fold an event belongs to
FoldKey(i) ==
    IF Cardinality(SessionIds) > 1 THEN subj_features[i].session ELSE TrialOrListId(i)

\* make_cross_val_labels has run on loaded data
LabelsMade == cls = SubjectClassifier /\ ~IsNone(task_phase)

(***************************************************************************)
(* C10.  The cross-validation planner keys the folds by session id when    *)
(* the events hold more than one unique session id and by trial / list id  *)
(* when they hold exactly one: the keys of cross_val_dict are the ids of   *)
(* that kind, a fold tests only events with its key and trains only on     *)
(* events with another, and cv_sel of ClassifyTH holds the id of that kind *)
(* for every event.                                                        *)
(***************************************************************************)
C10_FoldsKeyedBySessionOrList ==
    /\ LabelsMade =>
          /\ DOMAIN cross_val_dict = {FoldKey(i) : i \in DOMAIN subj_features}
          /\ \A k \in DOMAIN cross_val_dict : \A i \in DOMAIN subj_features :
                /\ cross_val_dict[k].test_bool[i] => FoldKey(i) = k
                /\ cross_val_dict[k].train_bool[i] => FoldKey(i) # k
    /\ (cls = ClassifyTH /\ ~IsNone(subj_res)) =>
          \A i \in DOMAIN subj_features : Get(subj_res).cv_sel[i] = FoldKey(i)

\* folds made for a single session with two lists, the keys the list ids and not
\* the session id, a fold with an event to test on and one to train on
C10_Witness ==
    /\ LabelsMade
    /\ Cardinality(SessionIds) = 1
    /\ Cardinality(DOMAIN cross_val_dict) = 2
    /\ DOMAIN cross_val_dict # SessionIds
    /\ \E k \in DOMAIN cross_val_dict : \E i, j \in DOMAIN subj_features :
          cross_val_dict[k].test_bool[i] /\ cross_val_dict[k].train_bool[j]

\* the task phase of an event, from the type the task recorded it with
PhaseOf(i) == IF subj_features[i].type = enc_str(task) THEN "enc" ELSE "rec"

\* make_cross_val_labels has just made the folds, from the phases now configured
Planned ==
    /\ cls = SubjectClassifier
    /\ last_call.op = "make_cross_val_labels"
    /\ last_call.outcome = "returned"

\* compute_classifier has just been called, with the phases now configured
Classified == cls = ClassifyTH /\ last_call.op = "run_classify_for_single_subj"

\* the folds are keyed by session
SessionBased == Cardinality(SessionIds) > 1

(***************************************************************************)
(* C11.  For every fold key k and every event e, the train mask of fold k  *)
(* is true at e if and only if the fold key of e differs from k and the    *)
(* task phase of e is one of the configured train phases, whatever the     *)
(* train phases and the test phases are: in cross_val_dict of              *)
(* SubjectClassifier and in the loop of ClassifyTH.compute_classifier.     *)
(***************************************************************************)
C11_TrainMaskIffOtherFoldAndTrainPhase ==
    /\ Planned =>
          \A k \in DOMAIN cross_val_dict : \A i \in DOMAIN subj_features :
             cross_val_dict[k].train_bool[i]
                <=> (FoldKey(i) # k /\ PhaseOf(i) \in train_phase)
    /\ Classified =>
          \A k \in DOMAIN cv_masks : \A i \in DOMAIN subj_features :
             cv_masks[k].mask_train[i]
                <=> (FoldKey(i) # k /\ PhaseOf(i) \in train_phase)

(***************************************************************************)
(* C12.  For every fold key k and every event e, the test mask of fold k   *)
(* is true at e if and only if the fold key of e equals k and the task     *)
(* phase of e is one of the configured test phases.                        *)
(***************************************************************************)
C12_TestMaskIffOwnFoldAndTestPhase ==
    /\ Planned =>
          \A k \in DOMAIN cross_val_dict : \A i \in DOMAIN subj_features :
             cross_val_dict[k].test_bool[i]
                <=> (FoldKey(i) = k /\ PhaseOf(i) \in test_phase)
    /\ Classified =>
          \A k \in DOMAIN cv_masks : \A i \in DOMAIN subj_features :
             cv_masks[k].mask_test[i]
                <=> (FoldKey(i) = k /\ PhaseOf(i) \in test_phase)

\* folds made with the test phases not the train phases, one fold testing a
\* retrieval event of its own key and leaving an encoding event of its own
\* key and a retrieval event of another key out of its test mask
C12_Witness ==
    /\ Classified
    /\ test_phase = {"rec"} /\ train_phase = {"enc"}
    /\ \E k \in DOMAIN cv_masks : \E i, j, l \in DOMAIN subj_features :
          /\ cv_masks[k].mask_test[i]
          /\ FoldKey(j) = k /\ PhaseOf(j) = "enc" /\ ~cv_masks[k].mask_test[j]
          /\ FoldKey(l) # k /\ PhaseOf(l) = "rec" /\ ~cv_masks[k].mask_test[l]

(***************************************************************************)
(* C13.  For every fold key the train mask and the test mask of the fold   *)
(* are disjoint: no event is both a training event and a test event of the *)
(* fold, the train mask holds no event of the held-out fold and the test   *)
(* mask holds only events of the held-out fold.                            *)
(***************************************************************************)
C13_TrainAndTestMasksDisjoint ==
    /\ Planned =>
          \A k \in DOMAIN cross_val_dict : \A i \in DOMAIN subj_features :
             /\ ~(cross_val_dict[k].train_bool[i] /\ cross_val_dict[k].test_bool[i])
             /\ FoldKey(i) = k => ~cross_val_dict[k].train_bool[i]
             /\ FoldKey(i) # k => ~cross_val_dict[k].test_bool[i]
    /\ Classified =>
          \A k \in DOMAIN cv_masks : \A i \in DOMAIN subj_features :
             /\ ~(cv_masks[k].mask_train[i] /\ cv_masks[k].mask_test[i])
             /\ FoldKey(i) = k => ~cv_masks[k].mask_train[i]
             /\ FoldKey(i) # k => ~cv_masks[k].mask_test[i]

\* folds planned for training and testing on both phases: a fold with two
\* events to train on and one to test on, all of them valid for either mask
C13_Witness ==
    /\ Planned
    /\ train_phase = {"enc", "rec"} /\ test_phase = {"enc", "rec"}
    /\ \E k \in DOMAIN cross_val_dict : \E i, j, l \in DOMAIN subj_features :
          /\ i # j
          /\ cross_val_dict[k].train_bool[i] /\ cross_val_dict[k].train_bool[j]
          /\ cross_val_dict[k].test_bool[l]

\* the folds whose test mask holds event i
TestFoldsOf(i) ==
    IF cls = SubjectClassifier
    THEN {k \in DOMAIN cross_val_dict : cross_val_dict[k].test_bool[i]}
    ELSE {k \in DOMAIN cv_masks : cv_masks[k].mask_test[i]}

(***************************************************************************)
(* C14.  When the folds are keyed by session, the test masks of the folds  *)
(* partition the events whose phase is a test phase: every such event is   *)
(* in the test mask of exactly one fold, and no event whose phase is not a *)
(* test phase is in any test mask.                                         *)
(***************************************************************************)
C14_TestMasksPartitionTestPhaseEvents ==
    ((Planned \/ Classified) /\ SessionBased) =>
        \A i \in DOMAIN subj_features :
            IF PhaseOf(i) \in test_phase
            THEN Cardinality(TestFoldsOf(i)) = 1
            ELSE TestFoldsOf(i) = {}

\* session folds planned for testing on encoding: two sessions, an encoding
\* event in each and a retrieval event beside them
C14_Witness ==
    /\ Planned /\ SessionBased
    /\ test_phase = {"enc"}
    /\ Cardinality(DOMAIN cross_val_dict) = 2
    /\ \E i, j, l \in DOMAIN subj_features :
          /\ subj_features[i].session # subj_features[j].session
          /\ PhaseOf(i) = "enc" /\ PhaseOf(j) = "enc" /\ PhaseOf(l) = "rec"
          /\ TestFoldsOf(i) # TestFoldsOf(j)

\* the list ids of the events
ListIds == {TrialOrListId(i) : i \in DOMAIN subj_features}

(***************************************************************************)
(* C15.  The planner makes exactly one fold record per unique fold key.    *)
(* For the events of a single session with 3 unique list ids it makes      *)
(* exactly 3 folds, and the training set of each fold leaves out the       *)
(* events of its own list id and of no other list id: every event of       *)
(* another list whose phase is a train phase is in it.                     *)
(***************************************************************************)
C15_OneFoldPerKeyEachExcludingItsOwnList ==
    Planned =>
       /\ DOMAIN cross_val_dict = {FoldKey(i) : i \in DOMAIN subj_features}
       /\ (~SessionBased /\ Cardinality(ListIds) = 3) =>
             /\ Cardinality(DOMAIN cross_val_dict) = 3
             /\ \A k \in DOMAIN cross_val_dict : \A i \in DOMAIN subj_features :
                   /\ TrialOrListId(i) = k => ~cross_val_dict[k].train_bool[i]
                   /\ (TrialOrListId(i) # k /\ PhaseOf(i) \in train_phase)
                         => cross_val_dict[k].train_bool[i]

\* classify of SubjectClassifier has just been called
ClassifyCalled == cls = SubjectClassifier /\ last_call.op = "classify"

(***************************************************************************)
(* C16.  make_cross_val_labels called while subject_data is None reports   *)
(* and returns without raising, and leaves cross_val_dict and task_phase   *)
(* as they were.                                                           *)
(***************************************************************************)
C16_PlanningWithoutDataReports ==
    [][(/\ cls = SubjectClassifier
        /\ IsNone(subject_data)
        /\ last_call'.op = "make_cross_val_labels")
          => /\ last_call'.outcome = "reported"
             /\ cross_val_dict' = cross_val_dict
             /\ task_phase' = task_phase]_vars

\* the planner called after the data was removed, a plan of two folds made
\* before still in place
C16_Witness ==
    /\ cls = SubjectClassifier
    /\ last_call.op = "make_cross_val_labels" /\ last_call.outcome = "reported"
    /\ IsNone(subject_data)
    /\ Cardinality(DOMAIN cross_val_dict) = 2
    /\ ~IsNone(task_phase)

(***************************************************************************)
(* C17.  In every reachable state of a SubjectClassifier, classify called  *)
(* when the cross-validation plan is absent or the feature data is absent  *)
(* reports and returns without raising.  (classify assigns no attribute,   *)
(* so the plan and the data it found are those of the state it leaves.)    *)
(***************************************************************************)
C17_ClassifyWithoutPlanOrDataReports ==
    (ClassifyCalled /\ (DOMAIN cross_val_dict = {} \/ IsNone(subject_data)))
        => last_call.outcome = "reported"

(***************************************************************************)
(* C18.  When the data has exactly one unique session and more than one    *)
(* regularization candidate is configured, the classification operation    *)
(* (classify with a plan and data, run_classify_for_single_subj) rejects   *)
(* the configuration: it reports the error, fits no model and computes no  *)
(* AUC.                                                                    *)
(***************************************************************************)
C18_OneSessionManyCandidatesRejected ==
    (/\ \/ ClassifyCalled /\ DOMAIN cross_val_dict # {} /\ ~IsNone(subject_data)
        \/ Classified
     /\ Cardinality(SessionIds) = 1
     /\ Len(C) > 1)
        => /\ last_call.outcome = "reported"
           /\ last_call.fits = 0
           /\ ~last_call.auc

\* the weights of a fold have been computed
WeightsDone == fn_in.kind = "weights" /\ ~IsNone(fn_out)

\* the float 1.0
One == [num |-> 1, den |-> 1]

\* the number of training events of class c
ClassCount(c) == Cardinality({e \in DOMAIN fn_in.y_ind : fn_in.y_ind[e] = c})

\* the classes the weight vector has an entry for
WeightedClasses == 0 .. Len(Get(fn_out).recip_freq) - 1

\* every class the weight vector has an entry for has a training event
NoEmptyClass == \A c \in WeightedClasses : ClassCount(c) > 0

\* the classes with an entry are of the same size
BalancedClasses == \A c, d \in WeightedClasses : ClassCount(c) = ClassCount(d)

(***************************************************************************)
(* C19, as the code has it.  The weight of a class is the reciprocal of    *)
(* its count divided by the mean of the reciprocals, with or without the   *)
(* scaling of the encoding classes: when no class is empty, the class      *)
(* weights have mean exactly 1 over the classes, and the weights of the    *)
(* training events have mean exactly 1 over the events when the classes    *)
(* are of the same size.                                                   *)
(***************************************************************************)
C19_ClassWeightsMeanOne ==
    (WeightsDone /\ NoEmptyClass) =>
        /\ FMean(Get(fn_out).recip_freq) = One
        /\ BalancedClasses => FMean(Get(fn_out).weights) = One

\* four classes of sizes 2, 1, 1, 1, the encoding classes scaled by 2: the
\* class weights computed, and the mean of the event weights not 1
C19_Witness ==
    /\ WeightsDone /\ NoEmptyClass
    /\ fn_in.scaled /\ fn_in.scale_enc = 2
    /\ Len(Get(fn_out).recip_freq) = 4
    /\ ClassCount(0) = 2
    /\ FMean(Get(fn_out).weights) # One

(***************************************************************************)
(* C19, as claimed.  In every fold the observation weights passed to the   *)
(* fit, one per training event, have mean exactly 1 over the training      *)
(* events of the fold, for every distribution of class counts, with or     *)
(* without the scaling of the encoding classes.                            *)
(***************************************************************************)
C19_EventWeightsMeanOne ==
    WeightsDone => FMean(Get(fn_out).weights) = One

\* the bias and the AUC of a run have been computed
BiasDone == fn_in.kind = "bias" /\ ~IsNone(fn_out)

\* the folds and the candidates of the matrix
FoldsOfMatrix == DOMAIN fn_in.fold_aucs
CandsOfMatrix == DOMAIN fn_in.fold_aucs[1]

\* the largest, over the candidates, of the AUC summed over the folds: the
\* largest mean AUC times the number of folds
MaxSummedAuc ==
    LET total(c) == SumOver([f \in FoldsOfMatrix |-> fn_in.fold_aucs[f][c]], FoldsOfMatrix)
    IN  CHOOSE m \in {total(c) : c \in CandsOfMatrix} : \A c \in CandsOfMatrix : total(c) <= m

(***************************************************************************)
(* C20.  For every fold-by-candidate matrix of AUC values of a             *)
(* leave-one-session-out run, the bias is not negative and the bias        *)
(* corrected AUC is at most the largest, over the candidates, of the AUC   *)
(* averaged over the folds.                                                *)
(***************************************************************************)
C20_BiasNotNegativeAucAtMostBest ==
    BiasDone =>
        /\ Get(fn_out).bias.num >= 0
        /\ Get(fn_out).bias.den = Cardinality(FoldsOfMatrix) * AucLevels
        /\ Get(fn_out).auc.den = Cardinality(FoldsOfMatrix) * AucLevels
        /\ Get(fn_out).auc.num <= MaxSummedAuc

\* two folds, two candidates: the first wins overall and the second wins in
\* the second fold, so the bias is positive and the AUC below the best mean
C20_Witness ==
    /\ BiasDone
    /\ Cardinality(FoldsOfMatrix) = 2 /\ Cardinality(CandsOfMatrix) = 2
    /\ fn_in.fold_aucs[2][2] > fn_in.fold_aucs[2][1]
    /\ fn_in.fold_aucs[1][1] + fn_in.fold_aucs[2][1] > fn_in.fold_aucs[1][2] + fn_in.fold_aucs[2][2]
    /\ Get(fn_out).bias.num > 0
    /\ Get(fn_out).auc.num < MaxSummedAuc

\* the AUC of candidate c summed over the folds
SummedAuc(c) == SumOver([f \in FoldsOfMatrix |-> fn_in.fold_aucs[f][c]], FoldsOfMatrix)

\* the best AUC of fold f over the candidates
BestOfFold(f) ==
    CHOOSE m \in {fn_in.fold_aucs[f][c] : c \in CandsOfMatrix} :
        \A c \in CandsOfMatrix : fn_in.fold_aucs[f][c] <= m

\* the gap of candidate c summed over the folds: the bias times the number of folds
SummedGap(c) ==
    SumOver([f \in FoldsOfMatrix |-> BestOfFold(f) - fn_in.fold_aucs[f][c]], FoldsOfMatrix)

\* scenario C: two folds, two candidates, candidate 1 best overall and
\* candidate 2 best in one of the folds
ScenarioC ==
    /\ Cardinality(FoldsOfMatrix) = 2 /\ Cardinality(CandsOfMatrix) = 2
    /\ SummedAuc(1) > SummedAuc(2)
    /\ \E f \in FoldsOfMatrix : fn_in.fold_aucs[f][2] > fn_in.fold_aucs[f][1]

(***************************************************************************)
(* C21.  In leave-one-session-out mode the reported AUC is the largest     *)
(* mean AUC over the candidates minus the bias, the bias being the mean    *)
(* over the folds of (the best AUC of the fold over the candidates minus   *)
(* the AUC of the fold at the candidate with the highest mean AUC), over   *)
(* the complete matrix; in scenario C the reported AUC is strictly below   *)
(* the largest mean AUC.                                                   *)
(***************************************************************************)
C21_AucIsBestMeanMinusBias ==
    BiasDone =>
        /\ \E c \in CandsOfMatrix :
              /\ SummedAuc(c) = MaxSummedAuc
              /\ Get(fn_out).bias = [num |-> SummedGap(c),
                                     den |-> Cardinality(FoldsOfMatrix) * AucLevels]
              /\ Get(fn_out).auc = [num |-> MaxSummedAuc - SummedGap(c),
                                    den |-> Cardinality(FoldsOfMatrix) * AucLevels]
        /\ ScenarioC => Get(fn_out).auc.num < MaxSummedAuc

\* scenario C computed: candidate 2 wins the first fold by one level and
\* loses the second by all of them, and the bias is that one level over two folds
C21_Witness ==
    /\ BiasDone /\ ScenarioC
    /\ fn_in.fold_aucs[1][2] - fn_in.fold_aucs[1][1] = 1
    /\ fn_in.fold_aucs[2][1] = AucLevels /\ fn_in.fold_aucs[2][2] = 0
    /\ Get(fn_out).bias.num = 1

\* the cluster cl holds an electrode of the left hemisphere (x < 0) and one of
\* the right (x >= 0)
AcrossHemispheres(cl) ==
    \E i, j \in Range(cl) : elec_info[i].x < 0 /\ elec_info[j].x >= 0

\* the clusters analysis() of SubjectOscillationClusterAnalysis returned
ReturnedClusters ==
    UNION {{clusters[c].elecs[k] : k \in DOMAIN clusters[c].elecs} : c \in DOMAIN clusters}

ListsOfSession(s) ==
    Cardinality({TrialOrListId(i) : i \in {j \in DOMAIN subj_features : subj_features[j].session = s}})

\* the minimum number of lists for the task of the subject
MinLists == IF task = "RAM_TH1" THEN n_lists_RAM_TH1 ELSE n_lists_RAM_FR1

\* the sessions that meet the minimum
FullSessions == {s \in SessionIds : ListsOfSession(s) >= MinLists}

\* the events of the sessions that meet the minimum, in their order
EventsOfFullSessions ==
    BoolIndex(subj_features,
              [i \in DOMAIN subj_features |-> subj_features[i].session \in FullSessions],
              Len(subj_features))

(***************************************************************************)
(* C29.  remove_abridged_sessions keeps a session if and only if its       *)
(* number of unique lists / trials meets the minimum of the task of the    *)
(* subject (30 for RAM_TH1, 15 for RAM_FR1): called on the loaded data, it *)
(* leaves the events of the sessions that meet it, all of them and no      *)
(* other, and sets subject_data to None only when no session meets it.     *)
(***************************************************************************)
C29_KeepsSessionsMeetingTaskMinimum ==
    (/\ cls = SubjectClassifier
     /\ last_call.op = "remove_abridged_sessions"
     /\ last_call.outcome = "returned") =>
        subject_data = IF FullSessions = {} THEN Unset ELSE Some(EventsOfFullSessions)

(***************************************************************************)
(* C26.  In the parallel per-time-point regression the results are         *)
(* aggregated into the cluster's result only after every unit of work has  *)
(* completed, and once a unit has raised the exception leaves analysis():  *)
(* no traveling-wave result is stored for that cluster, neither a new one  *)
(* nor one that an earlier run left behind.                                *)
(***************************************************************************)
ThisCluster == waves.cluster_names[waves.i]

C26_AggregateAfterAllWorkers ==
    [][/\ waves'.stored # waves.stored /\ waves'.stored # {} => AllDone(waves.units)
       /\ waves.pc = "parallel" /\ SomeRaised(waves.units) =>
             /\ waves'.pc \in {"parallel", "raised"}
             /\ ThisCluster \notin waves.stored
             /\ waves'.stored = waves.stored]_vars

\* the second cluster's regression raised after the first cluster was stored
C26_Witness ==
    /\ cls = TravelingWave
    /\ waves.pc = "raised"
    /\ waves.i = 2
    /\ waves.stored = {1}
    /\ SomeRaised(waves.units)
    /\ SomeDone(waves.units)

(***************************************************************************)
(* C27.  For a subject with exactly one session every regularization value *)
(* classification uses is that of default_C, whatever self.C has been set  *)
(* to: the value of the classifiers fitted in the folds, and the value set *)
(* on the final classifier that is fitted on all the data and stored in    *)
(* the result.                                                             *)
(***************************************************************************)
OneSession == Cardinality(unique(Column(subj_features, "session"))) = 1

C27_SingleSessionUsesDefaultC ==
    cls = ClassifyTH /\ last_call.op = "run_classify_for_single_subj" /\ OneSession =>
        /\ fit_C \subseteq Range(default_C)
        /\ last_call.outcome = "returned" =>
               Get(subj_res).lr_classifier_C \in Range(default_C)

(***************************************************************************)
(* The passes of the subject loop, for C24, C25 and C30.                   *)
(***************************************************************************)
Passes == IF cls = ClassifyTH THEN DOMAIN batch.log ELSE {}

\* the subject's events load, and its feature file holds another number of
\* events than the subject has now
StaleFeatures(k) ==
    LET s == batch.subjs[k]
    IN  s.events # {} /\ s.feat_file # {} /\ s.feat_file # s.events

\* the pass computed the features anew and gave the classifier no others
Recomputed(k) ==
    /\ batch.log[k].computed
    /\ batch.log[k].classified => batch.log[k].used = batch.subjs[k].events

(***************************************************************************)
(* C24.  For every subject of the batch other than R1208C and R1201P_1     *)
(* whose pass is not skipped for a stored classifier result: whenever the  *)
(* feature file's number of events differs from the number of events the   *)
(* subject has now, the features are computed anew, and the stale features *)
(* are not used for classification.                                        *)
(***************************************************************************)
C24_StaleFeaturesRecomputedUnlessKept ==
    \A k \in Passes :
        /\ StaleFeatures(k)
        /\ batch.subjs[k].subj \notin features_kept_for
        /\ batch.log[k].decision # "skipped"
        => Recomputed(k)

\* a subject with one event more than its feature file: computed anew, classified
C24_Witness ==
    \E k \in Passes :
        /\ StaleFeatures(k)
        /\ batch.subjs[k].events = Some(2)
        /\ batch.subjs[k].subj \notin features_kept_for
        /\ batch.log[k].decision = "classified"
        /\ batch.log[k].used = Some(2)

\* C24 as stated: for every subject of the batch, whenever the feature
\* file's number of events differs from the subject's, the features are
\* computed anew
C24_StaleFeaturesRecomputed ==
    \A k \in Passes : StaleFeatures(k) => Recomputed(k)

(***************************************************************************)
(* C25.  A stored classifier result is taken in place of a new             *)
(* classification only if its number of events is the number of events the *)
(* subject has now: with equal numbers, and reclassification not forced,   *)
(* the stored result is taken and no classification runs; with different   *)
(* numbers the stored result is not taken and classification runs again.   *)
(***************************************************************************)
C25_StoredResultKeyedByEventCount ==
    /\ \A k \in Passes :
          LET s == batch.subjs[k]
          IN  s.save_file # {} =>
                /\ batch.log[k].decision = "skipped" => s.save_file = s.events
                /\ s.save_file = s.events /\ ~batch.force_reclass =>
                       batch.log[k].decision = "skipped" /\ ~batch.log[k].classified
                /\ s.save_file # s.events => batch.log[k].decision # "skipped"
    /\ cls = SubjectClassifier =>
          \A k \in DOMAIN batch.log :
              /\ batch.load_class_res_if_file_exists
              /\ batch.class_save_file # {}
              /\ batch.log[k].decision = "skipped"
              => batch.class_save_file = batch.subject_data

(***************************************************************************)
(* C30.  In run_classify_for_all_subjs, over any sequence of subjects, the *)
(* number of events the cache checks of a subject read is that of the      *)
(* subject's own newly loaded events: when the events of a subject cannot  *)
(* be loaded, the events of a subject processed before are never read to   *)
(* decide about it.                                                        *)
(***************************************************************************)
C30_ChecksReadOwnEvents ==
    \A k \in Passes : batch.log[k].events_of \in {0, k}

(***************************************************************************)
(* C22.  Classification never changes the feature matrix the caller holds: *)
(* after classify() or compute_classifier has run, the feature values of   *)
(* the caller are what they were before the call, the normalization having *)
(* written to working copies only.                                         *)
(***************************************************************************)
C22_CallerFeaturesUnchanged ==
    Followed => data = RawData(subj_features)

(***************************************************************************)
(* C23.  Within each fold, every test event whose phase is also a train    *)
(* phase is normalized against the mean and the deviation of the training  *)
(* features of that phase as they are before the fold normalizes them, and *)
(* every test event whose phase is not a train phase is z-scored against   *)
(* the test events of its phase; the normalized row of a test event stands *)
(* at that event's own position in the test array.                         *)
(***************************************************************************)
\* the rows of X with the phase ph among the rows a mask selects
PhaseRows(X, mask, tp, ph) ==
    Take(X, Where([i \in DOMAIN mask |-> mask[i] /\ tp[i] = ph]))

\* what the claim asks of the test array of a fold: X the matrix the fold
\* indexes, tp the phase of every event, the masks of the fold, the phases
ExpectedTest(X, tp, mask_train, mask_test, train_ph) ==
    LET idx == Where(mask_test)
    IN  [p \in DOMAIN idx |->
            LET ph == tp[idx[p]]
            IN  IF ph \in train_ph
                THEN zmap(<<X[idx[p]]>>, PhaseRows(X, mask_train, tp, ph))[1]
                ELSE LET own == Where([i \in DOMAIN mask_test |-> mask_test[i] /\ tp[i] = ph])
                     IN  zscore(Take(X, own))[Rank(own, idx[p])]]

C23_TestRowsScaledByTrainStatistics ==
    /\ cls = SubjectClassifier /\ last_call.op = "classify" /\ Followed =>
          \A cv \in DOMAIN fold_x :
              fold_x[cv].x_test =
                  ExpectedTest(FoldInput(feat_type, data, Column(Get(subject_data), "session"),
                                         Get(task_phase), train_phase \cup test_phase),
                               Get(task_phase), cross_val_dict[cv].train_bool,
                               cross_val_dict[cv].test_bool, train_phase)
    /\ cls = ClassifyTH /\ last_call.op = "run_classify_for_single_subj" /\ Followed =>
          \A cv \in DOMAIN fold_x :
              /\ ~fold_x[cv].raised
              /\ fold_x[cv].x_test =
                    ExpectedTest(FoldInput(feat_type, data, Column(subj_features, "session"),
                                           ClassifyTHTaskPhase(subj_features, task),
                                           CommonPhases(train_phase) \cup CommonPhases(test_phase)),
                                 ClassifyTHTaskPhase(subj_features, task),
                                 cv_masks[cv].mask_train, cv_masks[cv].mask_test,
                                 CommonPhases(train_phase))

====
